---------------------------- MODULE Spec2Model ----------------------------
(***************************************************************************)
(* Model of the inverted-index search engine: tokenizer, stemmer, index    *)
(* builder and search_cli (src/cxx/src/*.cpp).                             *)
(*                                                                         *)
(* Byte strings.  A C string is modelled as a record                       *)
(*     [rep |-> n, body |-> <<b1, ..., bk>>]                               *)
(* that stands for n copies of the byte 97 ('a') followed by the bytes     *)
(* b1..bk (ASCII codes).  The body never starts with 97, so two records    *)
(* are equal exactly when the strings are.  The run length lets the model  *)
(* hold strings longer than 65535 bytes, where the 16-bit length fields    *)
(* of the index files matter, without enumerating their bytes.             *)
(***************************************************************************)
EXTENDS Integers, Sequences, FiniteSets, TLC

VARIABLES
    \* ---- stemmer.cpp stem_token / search_cli.cpp stem_term_inplace
    stem_pc,        \* "off" | "offline" | "query" | "done"
    token,          \* the token handed to both stemmers
    stem_out,       \* stem_token's result (stemmer.cpp)
    term_out,       \* stem_term_inplace's result (search_cli.cpp)
    \* ---- index_builder.cpp main
    b_pc,               \* "off" | "scan" | "tokens" | "postings" | "lexicon" | "raw" | "done" | "failed"
    term_hash_capacity, \* size of the open-addressed term table
    term_table,         \* used slots of the table: slot index -> TermEntry
    unique_terms,
    tokens_seen,
    doc_id,             \* doc_id of the stemmed.txt line being scanned
    sorted_terms,       \* slot indexes in qsort order
    postings_file,      \* postings.bin
    lexicon_file,       \* lexicon.bin
    metas,              \* set entries of the DocMeta array: doc_id -> [title, url]
    metas_cap,
    docs_with_meta,
    max_doc_id,
    forward_file,       \* forward.bin
    \* ---- what index_builder has read so far
    in_tokens,          \* {<<term, doc_id>>}: the tokens scanned, with their line's doc_id
    in_sorted,          \* the stemmed.txt lines read so far came in non-decreasing doc_id order
    in_count,           \* stemmed.txt lines, tokens and raw_text.tsv records read
    raw_log,            \* the raw_text.tsv records read, in order, each a sequence of fields
    \* ---- the files of the offline pipeline
    raw_file,           \* raw_text.tsv
    tokenized_file,     \* tokenized.txt, written by tokenizer
    stemmed_file,       \* stemmed.txt, written by stemmer
    \* ---- search_cli.cpp main
    s_pc,               \* "off" | "ready" | "exit0" | "exit1"
    idx_data,           \* IndexData idx of main
    query_arg,          \* the query handed to run_single_query last, a sequence of bytes
    answer,             \* what run_single_query returned, pushed and printed
    interactive,        \* no --query was given: queries are read from stdin
    offset_arg,         \* main's offset, an unsigned 32-bit value
    limit_arg,          \* main's limit, an unsigned 32-bit value
    stdin_lines,        \* the lines of stdin, each without its '\n'
    stdin_pos,          \* how many lines of stdin fgets has returned
    stdout_lines,       \* the lines search_cli has printed on stdout
    evaluated           \* the queries handed to run_single_query, in order

stemVars == <<stem_pc, token, stem_out, term_out>>
builderVars == <<b_pc, term_hash_capacity, term_table, unique_terms, tokens_seen, doc_id,
                 sorted_terms, postings_file, lexicon_file, metas, metas_cap,
                 docs_with_meta, max_doc_id, forward_file, in_tokens, in_sorted, in_count, raw_log>>
pipeVars == <<raw_file, tokenized_file, stemmed_file>>
searchVars == <<s_pc, idx_data, query_arg, answer, interactive, offset_arg, limit_arg,
                stdin_lines, stdin_pos, stdout_lines, evaluated>>
vars == <<stemVars, builderVars, pipeVars, searchVars>>

-----------------------------------------------------------------------------
(* Bounds of the model *)

\* Longest run of leading 'a' bytes put in front of a generated token.
MaxPad == 2

\* Items index_builder reads in one run: stemmed.txt lines, their tokens and
\* raw_text.tsv records together.
MaxInputItems == 5

\* Records of raw_text.tsv.
MaxRawLines == 2

\* Pieces (terms, operators, parentheses) a generated query is made of.
MaxQueryLexemes == 3

\* Lines on the standard input of an interactive search_cli.
MaxStdinLines == 3

-----------------------------------------------------------------------------
(* Byte strings *)

Min(a, b) == IF a < b THEN a ELSE b

\* Number of leading 97 bytes of a sequence.
RECURSIVE LeadFill(_)
LeadFill(seq) ==
    IF seq = <<>> \/ Head(seq) # 97 THEN 0 ELSE 1 + LeadFill(Tail(seq))

\* The string of n 'a' bytes followed by the bytes of seq.
MkStr(n, seq) ==
    LET k == LeadFill(seq)
    IN [rep |-> n + k, body |-> SubSeq(seq, k + 1, Len(seq))]

EmptyStr == [rep |-> 0, body |-> <<>>]

\* strlen(s)
StrLen(s) == s.rep + Len(s.body)

\* s[i - 1] of the C string (i is 1-based here)
StrAt(s, i) == IF i <= s.rep THEN 97 ELSE s.body[i - s.rep]

\* The first k bytes of s (s[k] = '\0' in C).
Take(s, k) ==
    IF k <= s.rep THEN [rep |-> k, body |-> <<>>]
    ELSE [rep |-> s.rep, body |-> SubSeq(s.body, 1, k - s.rep)]

\* s with the byte c appended.
PutCh(s, c) ==
    IF s.body = <<>> /\ c = 97 THEN [rep |-> s.rep + 1, body |-> <<>>]
    ELSE [rep |-> s.rep, body |-> Append(s.body, c)]

\* strcmp(a, b) as -1, 0 or 1: the bytes are compared as unsigned chars up to
\* the first difference, a proper prefix is smaller.  Below the shorter run of
\* 'a' both strings hold 97, so the first difference lies after it.
strcmp(a, b) ==
    LET n == Min(StrLen(a), StrLen(b))
        d == {i \in (Min(a.rep, b.rep) + 1)..n : StrAt(a, i) # StrAt(b, i)}
    IN IF d = {}
       THEN (IF StrLen(a) < StrLen(b) THEN -1
             ELSE IF StrLen(a) > StrLen(b) THEN 1 ELSE 0)
       ELSE LET k == CHOOSE i \in d : \A j \in d : i <= j
            IN IF StrAt(a, k) < StrAt(b, k) THEN -1 ELSE 1

\* std::uint32_t values are kept as two 16-bit halves, [hi, lo] standing for
\* hi * 65536 + lo, so that sums up to 2^33 can be formed and reduced.
U32(n) == [hi |-> n \div 65536, lo |-> n % 65536]
U32Val(x) == x.hi * 65536 + x.lo
U32Less(x, y) == x.hi < y.hi \/ (x.hi = y.hi /\ x.lo < y.lo)
\* x + y in std::uint32_t arithmetic: the carry out of the high half is lost
U32Add(x, y) ==
    LET lo == x.lo + y.lo
    IN [hi |-> (x.hi + y.hi + lo \div 65536) % 65536, lo |-> lo % 65536]

\* <cctype> in the "C" locale, on a byte code
isspace(ch) == ch = 32 \/ ch \in 9..13
isalnum(ch) == ch \in 48..57 \/ ch \in 65..90 \/ ch \in 97..122
\* Faulty variant of tolower: capitals are left as they are.
tolower_keep_case(ch) == ch
tolower(ch) == IF ch \in 65..90 THEN ch + 32 ELSE ch

\* All sequences over S of length at most n.
RECURSIVE SeqsUpTo(_, _)
SeqsUpTo(S, n) ==
    IF n = 0 THEN {<<>>}
    ELSE LET shorter == SeqsUpTo(S, n - 1)
         IN shorter \cup {Append(q, x) : q \in {p \in shorter : Len(p) = n - 1}, x \in S}

-----------------------------------------------------------------------------
(* tokenizer.cpp.  A text file is [exists, lines]; a line of raw_text.tsv is  *)
(* the sequence of its tab-separated fields, a line of tokenized.txt and of  *)
(* stemmed.txt is [doc_id, tokens].                                          *)

\* Faulty variant of split_tsv_5: the fourth column is taken for the text when
\* the line has three tabs only.
split_tsv_5_three_tabs(fields) ==
    LET tabs == Len(fields) - 1
    IN <<fields[1],
         IF tabs >= 2 THEN fields[2] ELSE EmptyStr,
         IF tabs >= 3 THEN fields[3] ELSE EmptyStr,
         IF tabs >= 4 THEN fields[4] ELSE EmptyStr,
         IF tabs >= 4 THEN fields[5] ELSE IF tabs = 3 THEN fields[4] ELSE EmptyStr>>

\* static void split_tsv_5(line, c1, c2, c3, c4, c5), tokenizer.cpp:9-29: a
\* column is empty unless the tab that ends it (or, for c5, starts it) exists
split_tsv_5(fields) ==
    LET tabs == Len(fields) - 1
    IN <<fields[1],
         IF tabs >= 2 THEN fields[2] ELSE EmptyStr,
         IF tabs >= 3 THEN fields[3] ELSE EmptyStr,
         IF tabs >= 4 THEN fields[4] ELSE EmptyStr,
         IF tabs >= 4 THEN fields[5] ELSE EmptyStr>>

\* The loop of tokenize_text (tokenizer.cpp:36-43) over the bytes after the
\* run of 'a', with the token being collected and the tokens found.
RECURSIVE tokenize_bytes(_, _, _)
tokenize_bytes(bytes, current, tokens) ==
    IF bytes = <<>>
    THEN (IF StrLen(current) > 0 THEN Append(tokens, current) ELSE tokens)
    ELSE IF isalnum(Head(bytes))
    THEN tokenize_bytes(Tail(bytes), PutCh(current, tolower(Head(bytes))), tokens)
    ELSE IF StrLen(current) > 0
    THEN tokenize_bytes(Tail(bytes), EmptyStr, Append(tokens, current))
    ELSE tokenize_bytes(Tail(bytes), current, tokens)

\* static std::vector<std::string> tokenize_text(text), tokenizer.cpp:31-48
tokenize_text(text) == tokenize_bytes(text.body, [rep |-> text.rep, body |-> <<>>], <<>>)

\* The loop of main (tokenizer.cpp:78-106) from line k on, with the lines
\* written so far.
RECURSIVE tokenizer_lines(_, _, _)
tokenizer_lines(lines, k, out) ==
    IF k > Len(lines) THEN out
    ELSE LET c == split_tsv_5(lines[k])
             tokens == tokenize_text(c[5])
         IN IF lines[k] = <<EmptyStr>> \/ StrLen(c[1]) = 0 \/ StrLen(c[5]) = 0 \/ tokens = <<>>
            THEN tokenizer_lines(lines, k + 1, out)
            ELSE tokenizer_lines(lines, k + 1, Append(out, [doc_id |-> c[1], tokens |-> tokens]))

\* int main of tokenizer.cpp: tokenized.txt for a raw_text.tsv
tokenizer_main(raw) == [exists |-> TRUE, lines |-> tokenizer_lines(raw.lines, 1, <<>>)]

-----------------------------------------------------------------------------
(* stemmer.cpp *)

\* The suffixes of the rule table, as ASCII codes.
Suf_ingly == <<105, 110, 103, 108, 121>>
Suf_edly  == <<101, 100, 108, 121>>
Suf_ing   == <<105, 110, 103>>
Suf_ed    == <<101, 100>>
Suf_ies   == <<105, 101, 115>>
Suf_es    == <<101, 115>>
Suf_ly    == <<108, 121>>

\* ends_with(s, n, suffix): memcmp of the last strlen(suffix) bytes.
ends_with(s, n, suffix) ==
    LET m == Len(suffix)
    IN IF n < m THEN FALSE
       ELSE \A k \in 1..m : StrAt(s, n - m + k) = suffix[k]

\* Faulty variant of stem_token: the "es" rule is tried before the "ies" rule.
stem_token_es_first(tok) ==
    LET n == StrLen(tok)
    IN IF n <= 2 THEN tok
       ELSE IF n > 5 /\ ends_with(tok, n, Suf_ingly) THEN Take(tok, n - 5)
       ELSE IF n > 4 /\ ends_with(tok, n, Suf_edly) THEN Take(tok, n - 4)
       ELSE IF n > 4 /\ ends_with(tok, n, Suf_ing) THEN Take(tok, n - 3)
       ELSE IF n > 3 /\ ends_with(tok, n, Suf_ed) THEN Take(tok, n - 2)
       ELSE IF n > 3 /\ ends_with(tok, n, Suf_es) THEN Take(tok, n - 2)
       ELSE IF n > 4 /\ ends_with(tok, n, Suf_ies) THEN PutCh(Take(tok, n - 3), 121)
       ELSE IF n > 3 /\ ends_with(tok, n, Suf_ly) THEN Take(tok, n - 2)
       ELSE IF n > 3 /\ StrAt(tok, n) = 115 THEN Take(tok, n - 1)
       ELSE tok

\* Faulty variant of stem_token: the "es" rule is missing.
stem_token_no_es(tok) ==
    LET n == StrLen(tok)
    IN IF n <= 2 THEN tok
       ELSE IF n > 5 /\ ends_with(tok, n, Suf_ingly) THEN Take(tok, n - 5)
       ELSE IF n > 4 /\ ends_with(tok, n, Suf_edly) THEN Take(tok, n - 4)
       ELSE IF n > 4 /\ ends_with(tok, n, Suf_ing) THEN Take(tok, n - 3)
       ELSE IF n > 3 /\ ends_with(tok, n, Suf_ed) THEN Take(tok, n - 2)
       ELSE IF n > 4 /\ ends_with(tok, n, Suf_ies) THEN PutCh(Take(tok, n - 3), 121)
       ELSE IF n > 3 /\ ends_with(tok, n, Suf_ly) THEN Take(tok, n - 2)
       ELSE IF n > 3 /\ StrAt(tok, n) = 115 THEN Take(tok, n - 1)
       ELSE tok

\* static void stem_token(char* token), stemmer.cpp:54-92
stem_token(tok) ==
    LET n == StrLen(tok)
    IN IF n <= 2 THEN tok
       ELSE IF n > 5 /\ ends_with(tok, n, Suf_ingly) THEN Take(tok, n - 5)
       ELSE IF n > 4 /\ ends_with(tok, n, Suf_edly) THEN Take(tok, n - 4)
       ELSE IF n > 4 /\ ends_with(tok, n, Suf_ing) THEN Take(tok, n - 3)
       ELSE IF n > 3 /\ ends_with(tok, n, Suf_ed) THEN Take(tok, n - 2)
       ELSE IF n > 4 /\ ends_with(tok, n, Suf_ies) THEN PutCh(Take(tok, n - 3), 121)
       ELSE IF n > 3 /\ ends_with(tok, n, Suf_es) THEN Take(tok, n - 2)
       ELSE IF n > 3 /\ ends_with(tok, n, Suf_ly) THEN Take(tok, n - 2)
       ELSE IF n > 3 /\ StrAt(tok, n) = 115 THEN Take(tok, n - 1)
       ELSE tok

\* stemmer.cpp:136-165: the tokens of one line stemmed, empty results dropped
RECURSIVE stem_tokens(_, _, _)
stem_tokens(tokens, k, out) ==
    IF k > Len(tokens) THEN out
    ELSE LET st == stem_token(tokens[k])
         IN stem_tokens(tokens, k + 1, IF StrLen(st) > 0 THEN Append(out, st) ELSE out)

\* int main of stemmer.cpp (the loop at :117-169): stemmed.txt for a
\* tokenized.txt; every line of tokenized.txt has its tab
stemmer_main(tokenized) ==
    [exists |-> TRUE,
     lines |-> [k \in 1..Len(tokenized.lines) |->
                   [doc_id |-> tokenized.lines[k].doc_id,
                    tokens |-> stem_tokens(tokenized.lines[k].tokens, 1, <<>>)]]]

-----------------------------------------------------------------------------
(* search_cli.cpp: the query-time stemmer *)

\* ends_with of search_cli.cpp:74-80
q_ends_with(s, n, suffix) ==
    LET m == Len(suffix)
    IN IF n < m THEN FALSE
       ELSE \A k \in 1..m : StrAt(s, n - m + k) = suffix[k]

\* Faulty variant of stem_term_inplace: the "ly" rule is missing.
stem_term_no_ly(tok) ==
    LET n == StrLen(tok)
    IN IF n <= 2 THEN tok
       ELSE IF n > 5 /\ q_ends_with(tok, n, <<105, 110, 103, 108, 121>>) THEN Take(tok, n - 5)
       ELSE IF n > 4 /\ q_ends_with(tok, n, <<101, 100, 108, 121>>) THEN Take(tok, n - 4)
       ELSE IF n > 4 /\ q_ends_with(tok, n, <<105, 110, 103>>) THEN Take(tok, n - 3)
       ELSE IF n > 3 /\ q_ends_with(tok, n, <<101, 100>>) THEN Take(tok, n - 2)
       ELSE IF n > 4 /\ q_ends_with(tok, n, <<105, 101, 115>>) THEN PutCh(Take(tok, n - 3), 121)
       ELSE IF n > 3 /\ q_ends_with(tok, n, <<101, 115>>) THEN Take(tok, n - 2)
       ELSE IF n > 3 /\ StrAt(tok, n) = 115 THEN Take(tok, n - 1)
       ELSE tok

\* static void stem_term_inplace(char* token), search_cli.cpp:82-119
stem_term_inplace(tok) ==
    LET n == StrLen(tok)
    IN IF n <= 2 THEN tok
       ELSE IF n > 5 /\ q_ends_with(tok, n, <<105, 110, 103, 108, 121>>) THEN Take(tok, n - 5)
       ELSE IF n > 4 /\ q_ends_with(tok, n, <<101, 100, 108, 121>>) THEN Take(tok, n - 4)
       ELSE IF n > 4 /\ q_ends_with(tok, n, <<105, 110, 103>>) THEN Take(tok, n - 3)
       ELSE IF n > 3 /\ q_ends_with(tok, n, <<101, 100>>) THEN Take(tok, n - 2)
       ELSE IF n > 4 /\ q_ends_with(tok, n, <<105, 101, 115>>) THEN PutCh(Take(tok, n - 3), 121)
       ELSE IF n > 3 /\ q_ends_with(tok, n, <<101, 115>>) THEN Take(tok, n - 2)
       ELSE IF n > 3 /\ q_ends_with(tok, n, <<108, 121>>) THEN Take(tok, n - 2)
       ELSE IF n > 3 /\ StrAt(tok, n) = 115 THEN Take(tok, n - 1)
       ELSE tok


\* enum TokenType, search_cli.cpp:7-14
TOK_TERM == 1
TOK_AND == 2
TOK_OR == 3
TOK_NOT == 4
TOK_LPAREN == 5
TOK_RPAREN == 6

\* Token{type, nullptr}
OpToken(type) == [type |-> type, text |-> EmptyStr]

\* search_cli.cpp:374-380
is_operand_end(type) == type = TOK_TERM \/ type = TOK_RPAREN
\* Faulty variant of is_operand_start: a NOT does not start an operand.
is_operand_start_no_not(type) == type = TOK_TERM \/ type = TOK_LPAREN
is_operand_start(type) == type = TOK_TERM \/ type = TOK_LPAREN \/ type = TOK_NOT

\* End of the run of alphanumeric bytes of query that starts at i
\* (search_cli.cpp:432-434); positions are 1-based.
RECURSIVE alnum_end(_, _)
alnum_end(query, i) ==
    IF i <= Len(query) /\ isalnum(query[i]) THEN alnum_end(query, i + 1) ELSE i

\* Faulty variant of query_term: the run is stemmed as it was typed.
query_term_keep_case(query, start, end) ==
    stem_term_inplace(MkStr(0, [k \in 1..(end - start) |-> query[start + k - 1]]))

\* search_cli.cpp:435-443: the run lowercased, then stemmed
query_term(query, start, end) ==
    stem_term_inplace(MkStr(0, [k \in 1..(end - start) |-> tolower(query[start + k - 1])]))

\* The first loop of tokenize_query (search_cli.cpp:389-450) from byte i on,
\* raw holding the tokens pushed so far.
RECURSIVE lex_from(_, _, _)
lex_from(query, i, raw) ==
    IF i > Len(query) THEN raw
    ELSE LET ch == query[i]
         IN IF isspace(ch) THEN lex_from(query, i + 1, raw)
            ELSE IF ch = 38 /\ i + 1 <= Len(query) /\ query[i + 1] = 38
            THEN lex_from(query, i + 2, Append(raw, OpToken(TOK_AND)))
            ELSE IF ch = 124 /\ i + 1 <= Len(query) /\ query[i + 1] = 124
            THEN lex_from(query, i + 2, Append(raw, OpToken(TOK_OR)))
            ELSE IF ch = 33 THEN lex_from(query, i + 1, Append(raw, OpToken(TOK_NOT)))
            ELSE IF ch = 40 THEN lex_from(query, i + 1, Append(raw, OpToken(TOK_LPAREN)))
            ELSE IF ch = 41 THEN lex_from(query, i + 1, Append(raw, OpToken(TOK_RPAREN)))
            ELSE IF isalnum(ch)
            THEN LET e == alnum_end(query, i)
                 IN lex_from(query, e,
                             Append(raw, [type |-> TOK_TERM, text |-> query_term(query, i, e)]))
            ELSE lex_from(query, i + 1, raw)

\* The second loop of tokenize_query (search_cli.cpp:452-464): an AND goes
\* between an operand end and an operand start.
RECURSIVE expand_from(_, _, _)
expand_from(raw, t, expanded) ==
    IF t > Len(raw) THEN expanded
    ELSE expand_from(raw, t + 1,
            IF t > 1 /\ is_operand_end(raw[t - 1].type) /\ is_operand_start(raw[t].type)
            THEN expanded \o <<OpToken(TOK_AND), raw[t]>>
            ELSE Append(expanded, raw[t]))

\* static int tokenize_query(query, out_tokens, out_count), search_cli.cpp:382-470;
\* the token array (allocation does not fail here)
tokenize_query(query) == expand_from(lex_from(query, 1, <<>>), 1, <<>>)

\* search_cli.cpp:472-487
\* Faulty variant of precedence: AND binds no tighter than OR.
precedence_and_as_or(t) == IF t = TOK_NOT THEN 3 ELSE IF t = TOK_AND THEN 1 ELSE IF t = TOK_OR THEN 1 ELSE 0
precedence(t) == IF t = TOK_NOT THEN 3 ELSE IF t = TOK_AND THEN 2 ELSE IF t = TOK_OR THEN 1 ELSE 0
is_right_assoc(t) == t = TOK_NOT

IsOperator(type) == type = TOK_AND \/ type = TOK_OR \/ type = TOK_NOT

\* search_cli.cpp:506-520: operators leave the stack for the output while the
\* top binds tighter than t, or as tight and t is left-associative
RECURSIVE pop_operators(_, _, _)
pop_operators(out, ops, t) ==
    IF ops # <<>> /\ IsOperator(ops[Len(ops)].type)
       /\ (precedence(ops[Len(ops)].type) > precedence(t.type)
           \/ (precedence(ops[Len(ops)].type) = precedence(t.type) /\ ~is_right_assoc(t.type)))
    THEN pop_operators(Append(out, ops[Len(ops)]), SubSeq(ops, 1, Len(ops) - 1), t)
    ELSE [out |-> out, ops |-> ops]

\* search_cli.cpp:534-547: the stack is popped to the output down to and
\* including the nearest LPAREN
RECURSIVE pop_to_lparen(_, _)
pop_to_lparen(out, ops) ==
    IF ops = <<>> THEN [found_lparen |-> FALSE, out |-> out, ops |-> ops]
    ELSE IF ops[Len(ops)].type = TOK_LPAREN
    THEN [found_lparen |-> TRUE, out |-> out, ops |-> SubSeq(ops, 1, Len(ops) - 1)]
    ELSE pop_to_lparen(Append(out, ops[Len(ops)]), SubSeq(ops, 1, Len(ops) - 1))

\* search_cli.cpp:556-566: the rest of the stack goes to the output; a
\* parenthesis left on it is a parse error
RECURSIVE drain_operators(_, _)
drain_operators(out, ops) ==
    IF ops = <<>> THEN [ok |-> TRUE, rpn |-> out]
    ELSE IF ops[Len(ops)].type = TOK_LPAREN \/ ops[Len(ops)].type = TOK_RPAREN
    THEN [ok |-> FALSE, rpn |-> <<>>]
    ELSE drain_operators(Append(out, ops[Len(ops)]), SubSeq(ops, 1, Len(ops) - 1))

\* The loop of to_rpn over in_tokens[i..] (search_cli.cpp:497-554)
RECURSIVE rpn_from(_, _, _, _)
rpn_from(in_toks, i, out, ops) ==
    IF i > Len(in_toks) THEN drain_operators(out, ops)
    ELSE LET t == in_toks[i]
         IN IF t.type = TOK_TERM THEN rpn_from(in_toks, i + 1, Append(out, t), ops)
            ELSE IF IsOperator(t.type)
            THEN LET r == pop_operators(out, ops, t)
                 IN rpn_from(in_toks, i + 1, r.out, Append(r.ops, t))
            ELSE IF t.type = TOK_LPAREN THEN rpn_from(in_toks, i + 1, out, Append(ops, t))
            ELSE LET r == pop_to_lparen(out, ops)
                 IN IF r.found_lparen THEN rpn_from(in_toks, i + 1, r.out, r.ops)
                    ELSE [ok |-> FALSE, rpn |-> <<>>]

\* Faulty variant of to_rpn: a parenthesis without its partner is let through.
to_rpn_ignore_parens(in_toks) == [ok |-> TRUE, rpn |-> rpn_from(in_toks, 1, <<>>, <<>>).rpn]

\* static int to_rpn(in_tokens, in_count, out_rpn, out_count), search_cli.cpp:489-571
to_rpn(in_toks) == rpn_from(in_toks, 1, <<>>, <<>>)

\* static int ensure_meta_cap(metas, cap, need), search_cli.cpp:217-239: the
\* capacity after the call, or -1
RECURSIVE grow_cap_past(_, _)
grow_cap_past(new_cap, need) ==
    IF new_cap > need THEN new_cap
    ELSE IF new_cap > 2147483647 THEN -1
    ELSE grow_cap_past(new_cap * 2, need)

ensure_meta_cap(cap, need) ==
    IF cap > need THEN cap ELSE grow_cap_past(IF cap = 0 THEN 1024 ELSE cap, need)

\* IndexData idx{} (search_cli.cpp:872)
EmptyIndex ==
    [lexicon |-> <<>>, term_count |-> 0, postings_data |-> <<>>, postings_total |-> 0,
     metas_by_id |-> [i \in {} |-> 0], max_doc_id |-> 0, docs_with_meta |-> 0,
     universe_ids |-> <<>>, universe_count |-> 0]

\* static int load_postings(idx, path), search_cli.cpp:133-163: [ok, idx]
load_postings(idx, file) ==
    IF ~file.exists THEN [ok |-> FALSE, idx |-> idx]
    ELSE IF file.magic # "POST" \/ file.version # 1 THEN [ok |-> FALSE, idx |-> idx]
    ELSE IF file.total_postings > 0 /\ Len(file.posting_ids) < file.total_postings
    THEN [ok |-> FALSE, idx |-> idx]
    ELSE [ok |-> TRUE,
          idx |-> [idx EXCEPT !.postings_data = SubSeq(file.posting_ids, 1, file.total_postings),
                              !.postings_total = file.total_postings]]

\* Faulty variant of load_lexicon: the version field is not looked at.
load_lexicon_any_version(idx, file) ==
    IF ~file.exists THEN [ok |-> FALSE, idx |-> idx]
    ELSE IF file.magic # "LEXI" THEN [ok |-> FALSE, idx |-> idx]
    ELSE IF Len(file.entries) < file.term_count THEN [ok |-> FALSE, idx |-> idx]
    ELSE [ok |-> TRUE,
          idx |-> [idx EXCEPT !.lexicon =
                                  [i \in 1..file.term_count |->
                                      [term |-> file.entries[i].term_bytes,
                                       postings_offset |-> file.entries[i].postings_offset_bytes,
                                       postings_count |-> file.entries[i].postings_count]],
                              !.term_count = file.term_count]]

\* static int load_lexicon(idx, path), search_cli.cpp:165-215: [ok, idx]
load_lexicon(idx, file) ==
    IF ~file.exists THEN [ok |-> FALSE, idx |-> idx]
    ELSE IF file.magic # "LEXI" \/ file.version # 1 THEN [ok |-> FALSE, idx |-> idx]
    ELSE IF Len(file.entries) < file.term_count THEN [ok |-> FALSE, idx |-> idx]
    ELSE [ok |-> TRUE,
          idx |-> [idx EXCEPT !.lexicon =
                                  [i \in 1..file.term_count |->
                                      [term |-> file.entries[i].term_bytes,
                                       postings_offset |-> file.entries[i].postings_offset_bytes,
                                       postings_count |-> file.entries[i].postings_count]],
                              !.term_count = file.term_count]]

\* The record loop of load_forward (search_cli.cpp:277-309) from record i on:
\* [ok, metas, cap, universe]
RECURSIVE load_forward_records(_, _, _, _, _, _)
load_forward_records(records, docs, i, ms, cap, universe) ==
    IF i > docs THEN [ok |-> TRUE, metas |-> ms, cap |-> cap, universe |-> universe]
    ELSE IF i > Len(records) THEN [ok |-> FALSE, metas |-> ms, cap |-> cap, universe |-> universe]
    ELSE LET r == records[i]
             c == ensure_meta_cap(cap, r.doc_id)
         IN IF c < 0 THEN [ok |-> FALSE, metas |-> ms, cap |-> cap, universe |-> universe]
            ELSE load_forward_records(records, docs, i + 1,
                    [d \in DOMAIN ms \cup {r.doc_id} |->
                        IF d = r.doc_id THEN [title |-> r.title_bytes, url |-> r.url_bytes]
                        ELSE ms[d]],
                    c, Append(universe, r.doc_id))

\* static int load_forward(idx, path), search_cli.cpp:241-316: [ok, idx]
load_forward(idx, file) ==
    IF ~file.exists THEN [ok |-> FALSE, idx |-> idx]
    ELSE IF file.magic # "FWRD" \/ file.version # 1 THEN [ok |-> FALSE, idx |-> idx]
    ELSE LET idx1 == [idx EXCEPT !.docs_with_meta = file.doc_count,
                                 !.max_doc_id = file.max_doc_id]
             cap == ensure_meta_cap(0, file.max_doc_id)
         IN IF cap < 0 THEN [ok |-> FALSE, idx |-> idx1]
            ELSE LET r == load_forward_records(file.records, file.doc_count, 1,
                                               [i \in {} |-> 0], cap, <<>>)
                 IN IF ~r.ok THEN [ok |-> FALSE, idx |-> idx1]
                    ELSE [ok |-> TRUE,
                          idx |-> [idx1 EXCEPT !.metas_by_id = r.metas,
                                               !.universe_ids = r.universe,
                                               !.universe_count = Len(r.universe)]]

\* search_cli.cpp:873: the three loads in order, stopping at the first failure
load_index(pf, lf, ff) ==
    LET r1 == load_postings(EmptyIndex, pf)
    IN IF ~r1.ok THEN r1
       ELSE LET r2 == load_lexicon(r1.idx, lf)
            IN IF ~r2.ok THEN r2 ELSE load_forward(r2.idx, ff)

\* static int lexicon_find(idx, term, offset, count), search_cli.cpp:339-357,
\* from the bounds lo..hi (0-based as in the code): [found, offset, count]
RECURSIVE lexicon_search(_, _, _, _)
lexicon_search(idx, term, lo, hi) ==
    IF lo > hi THEN [found |-> FALSE, offset |-> 0, count |-> 0]
    ELSE LET mid == (lo + hi) \div 2
             cmp == strcmp(term, idx.lexicon[mid + 1].term)
         IN IF cmp = 0
            THEN [found |-> TRUE, offset |-> idx.lexicon[mid + 1].postings_offset,
                  count |-> idx.lexicon[mid + 1].postings_count]
            ELSE IF cmp < 0 THEN lexicon_search(idx, term, lo, mid - 1)
            ELSE lexicon_search(idx, term, mid + 1, hi)

\* Faulty variant of lexicon_find: a term that is not found gets the first entry.
lexicon_find_or_first(idx, term) ==
    LET r == lexicon_search(idx, term, 0, idx.term_count - 1)
    IN IF r.found \/ idx.term_count = 0 THEN r
       ELSE [found |-> TRUE, offset |-> idx.lexicon[1].postings_offset,
             count |-> idx.lexicon[1].postings_count]

\* Faulty variant of lexicon_find: the search starts with hi one entry short.
lexicon_find_short(idx, term) == lexicon_search(idx, term, 0, idx.term_count - 2)

lexicon_find(idx, term) == lexicon_search(idx, term, 0, idx.term_count - 1)

\* Faulty variant of op_and: the smaller id of a is written instead of skipped.
RECURSIVE and_merge_keep_smaller(_, _, _, _, _)
and_merge_keep_smaller(a, b, i, j, out) ==
    IF i > Len(a) \/ j > Len(b) THEN out
    ELSE IF a[i] = b[j] THEN and_merge_keep_smaller(a, b, i + 1, j + 1, Append(out, a[i]))
    ELSE IF a[i] < b[j] THEN and_merge_keep_smaller(a, b, i + 1, j, Append(out, a[i]))
    ELSE and_merge_keep_smaller(a, b, i, j + 1, out)

\* static PostingList op_and(a, b), search_cli.cpp:599-620, as its merge loop
\* from positions i, j (1-based) with the output so far
RECURSIVE and_merge(_, _, _, _, _)
and_merge(a, b, i, j, out) ==
    IF i > Len(a) \/ j > Len(b) THEN out
    ELSE IF a[i] = b[j] THEN and_merge(a, b, i + 1, j + 1, Append(out, a[i]))
    ELSE IF a[i] < b[j] THEN and_merge(a, b, i + 1, j, out)
    ELSE and_merge(a, b, i, j + 1, out)

op_and_keep_smaller(a, b) == and_merge_keep_smaller(a, b, 1, 1, <<>>)

op_and(a, b) == and_merge(a, b, 1, 1, <<>>)

\* Faulty variant of op_or: an id found in both lists is written twice.
RECURSIVE or_merge_keep_both(_, _, _, _, _)
or_merge_keep_both(a, b, i, j, out) ==
    IF i > Len(a) THEN out \o SubSeq(b, j, Len(b))
    ELSE IF j > Len(b) THEN out \o SubSeq(a, i, Len(a))
    ELSE IF a[i] = b[j] THEN or_merge_keep_both(a, b, i + 1, j + 1, out \o <<a[i], b[j]>>)
    ELSE IF a[i] < b[j] THEN or_merge_keep_both(a, b, i + 1, j, Append(out, a[i]))
    ELSE or_merge_keep_both(a, b, i, j + 1, Append(out, b[j]))

op_or_keep_both(a, b) == or_merge_keep_both(a, b, 1, 1, <<>>)

\* Faulty variant of op_or: the second list is written after the first.
op_or_concat(a, b) == a \o b

\* static PostingList op_or(a, b), search_cli.cpp:622-649
RECURSIVE or_merge(_, _, _, _, _)
or_merge(a, b, i, j, out) ==
    IF i > Len(a) THEN out \o SubSeq(b, j, Len(b))
    ELSE IF j > Len(b) THEN out \o SubSeq(a, i, Len(a))
    ELSE IF a[i] = b[j] THEN or_merge(a, b, i + 1, j + 1, Append(out, a[i]))
    ELSE IF a[i] < b[j] THEN or_merge(a, b, i + 1, j, Append(out, a[i]))
    ELSE or_merge(a, b, i, j + 1, Append(out, b[j]))

op_or(a, b) == or_merge(a, b, 1, 1, <<>>)

\* static PostingList op_not(idx, a), search_cli.cpp:651-674
RECURSIVE not_merge(_, _, _, _, _)
not_merge(universe, a, i, j, out) ==
    IF i > Len(universe) THEN out
    ELSE IF j > Len(a) THEN not_merge(universe, a, i + 1, j, Append(out, universe[i]))
    ELSE IF universe[i] = a[j] THEN not_merge(universe, a, i + 1, j + 1, out)
    ELSE IF universe[i] < a[j] THEN not_merge(universe, a, i + 1, j, Append(out, universe[i]))
    ELSE not_merge(universe, a, i, j + 1, out)

op_not(idx, a) == not_merge(idx.universe_ids, a, 1, 1, <<>>)

\* The loop of eval_rpn (search_cli.cpp:706-763) from token i on, with the
\* operand stack and the lists pushed so far: [ok, stack, pushed]
RECURSIVE eval_from(_, _, _, _, _)
eval_from(idx, rpn, i, stack, pushed) ==
    IF i > Len(rpn) THEN [ok |-> TRUE, stack |-> stack, pushed |-> pushed]
    ELSE LET t == rpn[i]
             sp == Len(stack)
         IN IF t.type = TOK_TERM
            THEN LET f == lexicon_find(idx, t.text)
                     start == f.offset \div 4
                 IN IF ~f.found
                    THEN eval_from(idx, rpn, i + 1, Append(stack, <<>>), Append(pushed, <<>>))
                    ELSE IF start + f.count > idx.postings_total
                    THEN [ok |-> FALSE, stack |-> stack, pushed |-> pushed]
                    ELSE LET pl == SubSeq(idx.postings_data, start + 1, start + f.count)
                         IN eval_from(idx, rpn, i + 1, Append(stack, pl), Append(pushed, pl))
            ELSE IF t.type = TOK_NOT
            THEN IF sp < 1 THEN [ok |-> FALSE, stack |-> stack, pushed |-> pushed]
                 ELSE LET c == op_not(idx, stack[sp])
                      IN eval_from(idx, rpn, i + 1, Append(SubSeq(stack, 1, sp - 1), c),
                                   Append(pushed, c))
            ELSE IF t.type = TOK_AND \/ t.type = TOK_OR
            THEN IF sp < 2 THEN [ok |-> FALSE, stack |-> stack, pushed |-> pushed]
                 ELSE LET b == stack[sp]
                          a == stack[sp - 1]
                          c == IF t.type = TOK_AND THEN op_and(a, b) ELSE op_or(a, b)
                      IN eval_from(idx, rpn, i + 1, Append(SubSeq(stack, 1, sp - 2), c),
                                   Append(pushed, c))
            ELSE eval_from(idx, rpn, i + 1, stack, pushed)

\* Faulty variant of eval_rpn: an operand stack left empty is the empty result.
eval_rpn_empty_ok(idx, rpn) ==
    LET r == eval_from(idx, rpn, 1, <<>>, <<>>)
    IN IF r.ok /\ Len(r.stack) <= 1
       THEN [ok |-> TRUE, result |-> IF r.stack = <<>> THEN <<>> ELSE r.stack[1],
             pushed |-> r.pushed]
       ELSE [ok |-> FALSE, result |-> <<>>, pushed |-> r.pushed]

\* static PostingList eval_rpn(idx, rpn, rpn_count, ok), search_cli.cpp:700-778:
\* [ok, result, pushed]
eval_rpn(idx, rpn) ==
    LET r == eval_from(idx, rpn, 1, <<>>, <<>>)
    IN IF r.ok /\ Len(r.stack) = 1
       THEN [ok |-> TRUE, result |-> r.stack[1], pushed |-> r.pushed]
       ELSE [ok |-> FALSE, result |-> <<>>, pushed |-> r.pushed]

\* search_cli.cpp:790-797: the DOC line of the result at position i (1-based)
doc_line(idx, res, i) ==
    LET id == res[i]
    IN IF id <= idx.max_doc_id /\ id \in DOMAIN idx.metas_by_id
       THEN <<"DOC", id, idx.metas_by_id[id].title, idx.metas_by_id[id].url>>
       ELSE <<"DOC", id, EmptyStr, EmptyStr>>

\* static void print_results(idx, res, offset, limit), search_cli.cpp:780-799:
\* the lines printed.  offset and limit are std::uint32_t and so is their
\* sum end (:785); the loop runs for i = offset while i < end.
print_results(idx, res, offset, limit) ==
    IF ~U32Less(offset, U32(Len(res))) THEN << <<"TOTAL", Len(res)>> >>
    ELSE LET sum == U32Add(offset, limit)
             end == IF U32Less(U32(Len(res)), sum) THEN Len(res) ELSE U32Val(sum)
             first == U32Val(offset)
         IN << <<"TOTAL", Len(res)>> >> \o [k \in 1..(end - first) |-> doc_line(idx, res, first + k)]

\* Faulty variant of run_single_query: a query without tokens is a failure.
run_single_query_empty_fails(idx, query, offset, limit) ==
    LET toks == tokenize_query(query)
    IN IF Len(toks) = 0
       THEN [ok |-> FALSE, result |-> <<>>, pushed |-> <<>>, out |-> <<>>]
       ELSE LET p == to_rpn(toks)
            IN IF ~p.ok THEN [ok |-> FALSE, result |-> <<>>, pushed |-> <<>>, out |-> <<>>]
               ELSE LET e == eval_rpn(idx, p.rpn)
                    IN IF ~e.ok
                       THEN [ok |-> FALSE, result |-> <<>>, pushed |-> e.pushed, out |-> <<>>]
                       ELSE [ok |-> TRUE, result |-> e.result, pushed |-> e.pushed,
                             out |-> print_results(idx, e.result, offset, limit)]

\* static int run_single_query(idx, query, offset, limit), search_cli.cpp:801-836:
\* [ok, result, pushed, out]; out holds the lines printed on stdout
run_single_query(idx, query, offset, limit) ==
    LET toks == tokenize_query(query)
    IN IF Len(toks) = 0
       THEN [ok |-> TRUE, result |-> <<>>, pushed |-> <<>>, out |-> << <<"TOTAL", 0>> >>]
       ELSE LET p == to_rpn(toks)
            IN IF ~p.ok THEN [ok |-> FALSE, result |-> <<>>, pushed |-> <<>>, out |-> <<>>]
               ELSE LET e == eval_rpn(idx, p.rpn)
                    IN IF ~e.ok
                       THEN [ok |-> FALSE, result |-> <<>>, pushed |-> e.pushed, out |-> <<>>]
                       ELSE [ok |-> TRUE, result |-> e.result, pushed |-> e.pushed,
                             out |-> print_results(idx, e.result, offset, limit)]

-----------------------------------------------------------------------------
(* index_builder.cpp *)

\* One step of djb2's loop, hash = hash * 33 + c (index_builder.cpp:64), kept
\* modulo m.  The table index is hash % capacity with hash a 64-bit value; for
\* a capacity m that divides 2^64 (the minimum 1024 does) reducing after every
\* step gives the same index.
djb2_step(h, c, m) == (h * 33 + c) % m

\* n steps of the loop over the byte 97 take h to A * h + B (mod m); the pair
\* <<A, B>>, computed by halving n: one more step maps it to
\* <<33 * A, 33 * B + 97>>, twice k steps to <<A * A, A * B + B>>.
RECURSIVE djb2_run(_, _)
djb2_run(n, m) ==
    IF n = 0 THEN <<1 % m, 0>>
    ELSE IF n % 2 = 1
    THEN LET p == djb2_run(n - 1, m) IN <<(33 * p[1]) % m, djb2_step(p[2], 97, m)>>
    ELSE LET p == djb2_run(n \div 2, m) IN <<(p[1] * p[1]) % m, (p[1] * p[2] + p[2]) % m>>

RECURSIVE djb2_body(_, _, _)
djb2_body(h, seq, m) ==
    IF seq = <<>> THEN h ELSE djb2_body(djb2_step(h, Head(seq), m), Tail(seq), m)

\* djb2(term) % capacity, index_builder.cpp:61-68 and :108
djb2(term, capacity) ==
    LET p == djb2_run(term.rep, capacity)
    IN djb2_body((p[1] * (5381 % capacity) + p[2]) % capacity, term.body, capacity)

\* static std::uint32_t parse_u32(const char* s): strtoul in base 10 reads the
\* leading run of digits; no digit gives 0.  The doc_id texts of the model are
\* short, so the value stays far below 2^32.
RECURSIVE parse_digits(_, _)
parse_digits(seq, acc) ==
    IF seq = <<>> \/ Head(seq) \notin 48..57 THEN acc
    ELSE parse_digits(Tail(seq), acc * 10 + (Head(seq) - 48))

parse_u32(s) == IF s.rep > 0 THEN 0 ELSE parse_digits(s.body, 0)

\* ensure_postings_cap(entry, need): the capacity after the call, or -1 when it
\* refuses to grow (index_builder.cpp:84-103; realloc itself does not fail here)
RECURSIVE grow_postings_cap(_, _)
grow_postings_cap(new_cap, need) ==
    IF new_cap >= need THEN new_cap
    ELSE IF new_cap > 2147483647 THEN -1
    ELSE grow_postings_cap(new_cap * 2, need)

ensure_postings_cap(entry, need) ==
    IF entry.postings_cap >= need THEN entry.postings_cap
    ELSE grow_postings_cap(IF entry.postings_cap = 0 THEN 8 ELSE entry.postings_cap, need)

\* Faulty variant of append_posting: the doc_id is appended without looking at
\* last_doc_id.
append_posting_always(entry, id) ==
    LET cap == ensure_postings_cap(entry, entry.postings_count + 1)
    IN IF cap < 0 THEN [ok |-> FALSE, entry |-> entry]
       ELSE [ok |-> TRUE,
             entry |-> [entry EXCEPT !.postings = Append(entry.postings, id),
                                     !.postings_count = entry.postings_count + 1,
                                     !.postings_cap = cap,
                                     !.last_doc_id = id]]

\* Faulty variant of append_posting: an entry without postings is compared
\* with last_doc_id like any other.
append_posting_no_empty_check(entry, id) ==
    IF entry.last_doc_id # id
    THEN LET cap == ensure_postings_cap(entry, entry.postings_count + 1)
         IN IF cap < 0 THEN [ok |-> FALSE, entry |-> entry]
            ELSE [ok |-> TRUE,
                  entry |-> [entry EXCEPT !.postings = Append(entry.postings, id),
                                          !.postings_count = entry.postings_count + 1,
                                          !.postings_cap = cap,
                                          !.last_doc_id = id]]
    ELSE [ok |-> TRUE, entry |-> entry]

\* index_builder.cpp:129-137: the posting appended to the slot's entry
append_posting(entry, id) ==
    IF entry.postings_count = 0 \/ entry.last_doc_id # id
    THEN LET cap == ensure_postings_cap(entry, entry.postings_count + 1)
         IN IF cap < 0 THEN [ok |-> FALSE, entry |-> entry]
            ELSE [ok |-> TRUE,
                  entry |-> [entry EXCEPT !.postings = Append(entry.postings, id),
                                          !.postings_count = entry.postings_count + 1,
                                          !.postings_cap = cap,
                                          !.last_doc_id = id]]
    ELSE [ok |-> TRUE, entry |-> entry]

\* index_builder.cpp:113-123: a fresh entry in an unused slot
new_entry(term) ==
    [term |-> term, postings |-> <<>>, postings_count |-> 0, postings_cap |-> 0,
     last_doc_id |-> 0, postings_offset_bytes |-> 0]

\* The probe loop of add_term_doc from slot idx, `step` slots already tried.
RECURSIVE probe(_, _, _, _, _, _, _)
probe(table, capacity, term, id, used_terms, idx, step) ==
    IF step >= capacity THEN [ok |-> FALSE, table |-> table, used_terms |-> used_terms]
    ELSE IF idx \notin DOMAIN table
    THEN LET r == append_posting(new_entry(term), id)
         IN [ok |-> r.ok,
             table |-> [i \in DOMAIN table \cup {idx} |->
                           IF i = idx THEN r.entry ELSE table[i]],
             used_terms |-> used_terms + 1]
    ELSE IF strcmp(table[idx].term, term) # 0
    THEN probe(table, capacity, term, id, used_terms, (idx + 1) % capacity, step + 1)
    ELSE LET r == append_posting(table[idx], id)
         IN [ok |-> r.ok,
             table |-> [table EXCEPT ![idx] = r.entry],
             used_terms |-> used_terms]

\* Faulty variant of add_term_doc: the probe gives up one slot early.
add_term_doc_short_probe(table, capacity, term, id, used_terms) ==
    probe(table, capacity, term, id, used_terms, djb2(term, capacity), 1)

\* Faulty variant of add_term_doc: used_terms is incremented on every call.
add_term_doc_count_calls(table, capacity, term, id, used_terms) ==
    LET r == probe(table, capacity, term, id, used_terms, djb2(term, capacity), 0)
    IN [r EXCEPT !.used_terms = used_terms + 1]

\* static int add_term_doc(table, capacity, term, doc_id, used_terms),
\* index_builder.cpp:105-140
add_term_doc(table, capacity, term, id, used_terms) ==
    probe(table, capacity, term, id, used_terms, djb2(term, capacity), 0)

\* Faulty variant of cmp_term_ptrs: the operands of strcmp are swapped.
cmp_term_ptrs_swapped(ta, tb) == strcmp(tb.term, ta.term)

\* static int cmp_term_ptrs(a, b), index_builder.cpp:142-146
cmp_term_ptrs(ta, tb) == strcmp(ta.term, tb.term)

\* The orders of the slots in S in which no slot comes before one that
\* cmp_term_ptrs puts in front of it: the first slot is one that compares
\* <= 0 with every slot, the rest is such an order of the other slots.
RECURSIVE qsort_orders(_, _)
qsort_orders(table, S) ==
    IF S = {} THEN {<<>>}
    ELSE UNION {{<<x>> \o p : p \in qsort_orders(table, S \ {x})} :
                   x \in {m \in S : \A y \in S : cmp_term_ptrs(table[m], table[y]) <= 0}}

\* index_builder.cpp:289-295: the used slots, in an order qsort may leave them
\* in under cmp_term_ptrs
qsort_results(table) == qsort_orders(table, DOMAIN table)

\* index_builder.cpp:326-335: the loop over sorted_terms[from..], writing each
\* posting list and assigning each entry its offset
RECURSIVE write_postings_loop(_, _, _, _)
write_postings_loop(table, sorted, i, acc) ==
    IF i > Len(sorted) THEN [table |-> table, ids |-> acc.ids, total |-> acc.total]
    ELSE LET e == table[sorted[i]]
             t == [table EXCEPT ![sorted[i]].postings_offset_bytes = acc.offset]
         IN IF e.postings_count > 0
            THEN write_postings_loop(t, sorted, i + 1,
                     [ids |-> acc.ids \o SubSeq(e.postings, 1, e.postings_count),
                      offset |-> acc.offset + e.postings_count * 4,
                      total |-> acc.total + e.postings_count])
            ELSE write_postings_loop(t, sorted, i + 1, acc)

\* Faulty variant of write_postings: the first offset counts the 16 header
\* bytes of postings.bin.
write_postings_after_header(table, sorted) ==
    LET r == write_postings_loop(table, sorted, 1, [ids |-> <<>>, offset |-> 16, total |-> 0])
    IN [table |-> r.table,
        file |-> [exists |-> TRUE, magic |-> "POST", version |-> 1,
                  total_postings |-> r.total, posting_ids |-> r.ids]]

\* index_builder.cpp:319-338: postings.bin and the table with the offsets set
write_postings(table, sorted) ==
    LET r == write_postings_loop(table, sorted, 1, [ids |-> <<>>, offset |-> 0, total |-> 0])
    IN [table |-> r.table,
        file |-> [exists |-> TRUE, magic |-> "POST", version |-> 1,
                  total_postings |-> r.total, posting_ids |-> r.ids]]

\* index_builder.cpp:358-368: one lexicon.bin record
lexicon_record(e) ==
    LET term_len == IF StrLen(e.term) > 65535 THEN 65535 ELSE StrLen(e.term)
    IN [term_len |-> term_len, term_bytes |-> Take(e.term, term_len),
        postings_offset_bytes |-> e.postings_offset_bytes,
        postings_count |-> e.postings_count]

\* index_builder.cpp:354-369: lexicon.bin
write_lexicon(table, sorted, n_terms) ==
    [exists |-> TRUE, magic |-> "LEXI", version |-> 1, term_count |-> n_terms,
     entries |-> [i \in 1..n_terms |-> lexicon_record(table[sorted[i]])]]

\* ensure_doc_meta_cap(metas, cap, need): the capacity after the call, or -1
\* (index_builder.cpp:148-171)
RECURSIVE grow_meta_cap(_, _)
grow_meta_cap(new_cap, need) ==
    IF new_cap > need THEN new_cap
    ELSE IF new_cap > 2147483647 THEN -1
    ELSE grow_meta_cap(new_cap * 2, need)

ensure_doc_meta_cap(cap, need) ==
    IF cap > need THEN cap
    ELSE grow_meta_cap(IF cap = 0 THEN 1024 ELSE cap, need)

\* Faulty variant of store_meta: a later record of the doc_id replaces the
\* title and url.
store_meta_last_wins(ms, id, title, url) ==
    [i \in DOMAIN ms \cup {id} |->
        IF i = id THEN [doc_id |-> id, title |-> title, url |-> url] ELSE ms[i]]

\* index_builder.cpp:438-460: the record's title and url are stored unless the
\* doc_id already has some
store_meta(ms, id, title, url) ==
    IF id \notin DOMAIN ms
    THEN [i \in DOMAIN ms \cup {id} |->
             IF i = id THEN [doc_id |-> id, title |-> title, url |-> url] ELSE ms[i]]
    ELSE ms

\* index_builder.cpp:396-460: one record of raw_text.tsv, given as its
\* tab-separated fields, on the state m = [ok, metas, metas_cap,
\* docs_with_meta, max_doc_id] of the loop
read_raw_record(m, fields) ==
    IF Len(fields) < 5 \/ parse_u32(fields[1]) = 0 THEN m
    ELSE LET id == parse_u32(fields[1])
             cap == ensure_doc_meta_cap(m.metas_cap, id)
         IN IF cap < 0 THEN [m EXCEPT !.ok = FALSE]
            ELSE [ok |-> TRUE,
                  metas |-> store_meta(m.metas, id, fields[4], fields[3]),
                  metas_cap |-> cap,
                  docs_with_meta |-> IF id \notin DOMAIN m.metas THEN m.docs_with_meta + 1
                                     ELSE m.docs_with_meta,
                  max_doc_id |-> IF id \notin DOMAIN m.metas /\ id > m.max_doc_id THEN id
                                 ELSE m.max_doc_id]

\* index_builder.cpp:236-265 on a whole line: its tokens from the k-th on go
\* to add_term_doc; sc = [ok, table, used_terms, tokens_seen, in_tokens]
RECURSIVE scan_tokens(_, _, _, _, _)
scan_tokens(sc, capacity, id, tokens, k) ==
    IF k > Len(tokens) \/ ~sc.ok THEN sc
    ELSE LET r == add_term_doc(sc.table, capacity, tokens[k], id, sc.used_terms)
         IN scan_tokens([ok |-> r.ok, table |-> r.table, used_terms |-> r.used_terms,
                         tokens_seen |-> IF r.ok THEN sc.tokens_seen + 1 ELSE sc.tokens_seen,
                         in_tokens |-> sc.in_tokens \cup {<<tokens[k], id>>}],
                        capacity, id, tokens, k + 1)

\* index_builder.cpp:223-272 on a whole stemmed.txt, from line k on
RECURSIVE scan_lines(_, _, _, _)
scan_lines(sc, capacity, lines, k) ==
    IF k > Len(lines) \/ ~sc.ok THEN sc
    ELSE scan_lines(scan_tokens(sc, capacity, parse_u32(lines[k].doc_id), lines[k].tokens, 1),
                    capacity, lines, k + 1)

\* index_builder.cpp:391-461 on a whole raw_text.tsv, from line k on
RECURSIVE read_raw_lines(_, _, _)
read_raw_lines(m, lines, k) ==
    IF k > Len(lines) \/ ~m.ok THEN m
    ELSE read_raw_lines(read_raw_record(m, lines[k]), lines, k + 1)

\* The ascending sequence of the numbers in S.
RECURSIVE Ascending(_)
Ascending(S) ==
    IF S = {} THEN <<>>
    ELSE LET x == CHOOSE y \in S : \A z \in S : y <= z
         IN <<x>> \o Ascending(S \ {x})

\* index_builder.cpp:495-501: one forward.bin record; the lengths are cast to
\* 16 bits and that many bytes of each string are written
forward_record(m) ==
    LET title_len == StrLen(m.title) % 65536
        url_len == StrLen(m.url) % 65536
    IN [doc_id |-> m.doc_id, title_len |-> title_len, url_len |-> url_len,
        title_bytes |-> Take(m.title, title_len), url_bytes |-> Take(m.url, url_len)]

\* index_builder.cpp:486-503: forward.bin
write_forward(ms, cap, n_docs, max_id) ==
    LET ids == Ascending({i \in 1..max_id : i < cap /\ i \in DOMAIN ms})
    IN [exists |-> TRUE, magic |-> "FWRD", version |-> 1, doc_count |-> n_docs,
        max_doc_id |-> max_id,
        records |-> [k \in 1..Len(ids) |-> forward_record(ms[ids[k]])]]

NoFile == [exists |-> FALSE]
NoAnswer == [ok |-> FALSE, result |-> <<>>, pushed |-> <<>>, out |-> <<>>]
NoTable == [i \in {} |-> 0]

-----------------------------------------------------------------------------
(* Specification SpecStem: one token through both stemmers *)

\* The letters the rule table reads: d e g i l n s y.
SuffixLetters == {100, 101, 103, 105, 108, 110, 115, 121}

\* The longest suffix of the rule table ("ingly").
LongestSuffix == 5

\* Tokens: up to MaxPad 'a' bytes followed by up to LongestSuffix letters of
\* the rule table; the stemmers are only handed non-empty tokens.
StemTokens ==
    {s \in {[rep |-> k, body |-> t] : k \in 0..MaxPad,
                                      t \in SeqsUpTo(SuffixLetters, LongestSuffix)} :
        StrLen(s) > 0}

\* index_builder not started.
BuilderNotStarted ==
    /\ b_pc = "off"
    /\ term_hash_capacity = 0
    /\ term_table = NoTable
    /\ unique_terms = 0
    /\ tokens_seen = 0
    /\ doc_id = -1
    /\ sorted_terms = <<>>
    /\ metas = NoTable
    /\ metas_cap = 0
    /\ docs_with_meta = 0
    /\ max_doc_id = 0
    /\ in_tokens = {}
    /\ in_sorted = TRUE
    /\ in_count = 0
    /\ raw_log = <<>>

\* index_builder not started and no index file in the output directory.
BuilderIdle ==
    /\ BuilderNotStarted
    /\ postings_file = NoFile
    /\ lexicon_file = NoFile
    /\ forward_file = NoFile

\* The pipeline's files are not there.
PipelineIdle ==
    /\ raw_file = NoFile
    /\ tokenized_file = NoFile
    /\ stemmed_file = NoFile

\* search_cli.cpp:841-842
DefaultOffset == 0
DefaultLimit == 50

\* search_cli not started; its arguments are --index-dir and a --query.
SearchIdle ==
    /\ s_pc = "off"
    /\ idx_data = EmptyIndex
    /\ query_arg = <<>>
    /\ answer = NoAnswer
    /\ interactive = FALSE
    /\ offset_arg = U32(DefaultOffset)
    /\ limit_arg = U32(DefaultLimit)
    /\ stdin_lines = <<>>
    /\ stdin_pos = 0
    /\ stdout_lines = <<>>
    /\ evaluated = <<>>

\* No token at the stemmers.
StemIdle ==
    /\ stem_pc = "off"
    /\ token = EmptyStr
    /\ stem_out = EmptyStr
    /\ term_out = EmptyStr

InitStem ==
    /\ stem_pc = "offline"
    /\ token \in StemTokens
    /\ stem_out = EmptyStr
    /\ term_out = EmptyStr
    /\ BuilderIdle
    /\ PipelineIdle
    /\ SearchIdle

\* stemmer.cpp:152, stem_token(start)
StemOffline ==
    /\ stem_pc = "offline"
    /\ stem_out' = stem_token(token)
    /\ stem_pc' = "query"
    /\ UNCHANGED <<token, term_out>>
    /\ UNCHANGED <<builderVars, pipeVars, searchVars>>

\* search_cli.cpp:443, stem_term_inplace(term)
StemQuery ==
    /\ stem_pc = "query"
    /\ term_out' = stem_term_inplace(token)
    /\ stem_pc' = "done"
    /\ UNCHANGED <<token, stem_out>>
    /\ UNCHANGED <<builderVars, pipeVars, searchVars>>

NextStem == StemOffline \/ StemQuery

SpecStem == InitStem /\ [][NextStem]_vars

-----------------------------------------------------------------------------
(* Properties of the stemmers (SpecStem) *)

\* The bytes of a string, written out.
Bytes(s) == [i \in 1..StrLen(s) |-> StrAt(s, i)]

\* The rule table in its order: a token longer than minlen that ends in suffix
\* loses its last strip bytes and gains the bytes add.
RuleTable ==
    << [minlen |-> 5, suffix |-> <<105, 110, 103, 108, 121>>, strip |-> 5, add |-> <<>>],
       [minlen |-> 4, suffix |-> <<101, 100, 108, 121>>,      strip |-> 4, add |-> <<>>],
       [minlen |-> 4, suffix |-> <<105, 110, 103>>,           strip |-> 3, add |-> <<>>],
       [minlen |-> 3, suffix |-> <<101, 100>>,                strip |-> 2, add |-> <<>>],
       [minlen |-> 4, suffix |-> <<105, 101, 115>>,           strip |-> 3, add |-> <<121>>],
       [minlen |-> 3, suffix |-> <<101, 115>>,                strip |-> 2, add |-> <<>>],
       [minlen |-> 3, suffix |-> <<108, 121>>,                strip |-> 2, add |-> <<>>],
       [minlen |-> 3, suffix |-> <<115>>,                     strip |-> 1, add |-> <<>> ] >>

RuleMatches(bytes, r) ==
    /\ Len(bytes) > r.minlen
    /\ SubSeq(bytes, Len(bytes) - Len(r.suffix) + 1, Len(bytes)) = r.suffix

\* Index of the first rule of the table that matches, 0 when none does.
FirstRule(bytes) ==
    LET hits == {k \in 1..Len(RuleTable) : RuleMatches(bytes, RuleTable[k])}
    IN IF hits = {} THEN 0 ELSE CHOOSE k \in hits : \A j \in hits : k <= j

RuleResult(bytes) ==
    LET k == FirstRule(bytes)
    IN IF k = 0 THEN bytes
       ELSE SubSeq(bytes, 1, Len(bytes) - RuleTable[k].strip) \o RuleTable[k].add

\* C7: stem_token returns the result of the first rule, in table order, whose
\* length precondition and suffix match, and the token itself when no rule
\* matches; a token of at most 2 bytes is unchanged and the result is never
\* empty.
C7_FirstMatchingRule ==
    stem_pc \in {"query", "done"} =>
        /\ Bytes(stem_out) = RuleResult(Bytes(token))
        /\ (StrLen(token) <= 2 => stem_out = token)
        /\ StrLen(stem_out) > 0

\* C7 witness: a token that ends in "ies", where the rules "ies", "es" and
\* "trailing s" all match, has been stemmed to its "y" form.
C7_Witness ==
    /\ stem_pc = "done"
    /\ FirstRule(Bytes(token)) = 5
    /\ RuleMatches(Bytes(token), RuleTable[6])
    /\ StrAt(stem_out, StrLen(stem_out)) = 121
    /\ StrLen(stem_out) = StrLen(token) - 2

\* C8: stem_token and stem_term_inplace return the same output for the same
\* token.
C8_StemmersAgree ==
    stem_pc = "done" => stem_out = term_out

\* C8 witness: both stemmers have changed a token, to the same stem.
C8_Witness ==
    /\ stem_pc = "done"
    /\ stem_out # token
    /\ term_out = stem_out
    /\ FirstRule(Bytes(token)) = 7

-----------------------------------------------------------------------------
(* Properties of the index builder (SpecBuilder) *)

StrictlyAscending(seq) ==
    \A i \in 1..Len(seq) : \A j \in 1..Len(seq) : i < j => seq[i] < seq[j]

RECURSIVE SumOver(_, _)
SumOver(f, n) == IF n = 0 THEN 0 ELSE f[n] + SumOver(f, n - 1)

\* The posting list of a term entry in memory.
EntryPostings(e) == SubSeq(e.postings, 1, e.postings_count)

\* postings_count of the lexicon.bin entries, in file order.
LexCounts == [i \in 1..Len(lexicon_file.entries) |-> lexicon_file.entries[i].postings_count]

\* The region of postings.bin the i-th lexicon.bin entry points to.
LexPostings(i) ==
    LET e == lexicon_file.entries[i]
    IN SubSeq(postings_file.posting_ids, e.postings_offset_bytes \div 4 + 1,
              e.postings_offset_bytes \div 4 + e.postings_count)

SeqRange(seq) == {seq[i] : i \in 1..Len(seq)}

\* C1: when the lines of stemmed.txt come in non-decreasing doc_id order, every
\* term's posting list is strictly ascending, so holds no doc_id twice.
C1_PostingsAscending ==
    (b_pc # "off" /\ in_sorted) =>
        \A i \in DOMAIN term_table : StrictlyAscending(EntryPostings(term_table[i]))

\* C1 witness: all tokens are processed, the lines came in non-decreasing
\* order, a term has two postings and a repeated occurrence added none.
C1_Witness ==
    /\ b_pc = "postings"
    /\ in_sorted
    /\ \E i \in DOMAIN term_table : term_table[i].postings_count >= 2
    /\ tokens_seen > Cardinality(in_tokens)

\* The largest length a 16-bit length field holds.
MaxU16 == 65535

\* No token read from stemmed.txt is longer than 65535 bytes.
TokensFitU16 == \A tk \in in_tokens : StrLen(tk[1]) <= MaxU16

\* The lexicon holds exactly the distinct tokens read, and each term's posting
\* list is exactly the set of doc_ids of the lines containing it.
LexiconIsInput ==
        /\ {lexicon_file.entries[i].term_bytes : i \in 1..Len(lexicon_file.entries)}
              = {tk[1] : tk \in in_tokens}
        /\ \A i \in 1..Len(lexicon_file.entries) :
              /\ SeqRange(LexPostings(i))
                    = {tk[2] : tk \in {x \in in_tokens :
                                         x[1] = lexicon_file.entries[i].term_bytes}}
              /\ Len(LexPostings(i)) = Cardinality(SeqRange(LexPostings(i)))

\* C2 as stated: after a successful build from a stemmed.txt with
\* non-decreasing doc_ids the lexicon holds exactly the distinct tokens of the
\* input, and each term's posting list is exactly the set of doc_ids of the
\* lines containing it.
C2_LexiconIsInput ==
    (b_pc = "done" /\ in_sorted) => LexiconIsInput

\* C2, amended: the same for a stemmed.txt whose tokens are at most 65535
\* bytes long.
C2_LexiconIsInputFitU16 ==
    (b_pc = "done" /\ in_sorted /\ TokensFitU16) => LexiconIsInput

\* C2 witness: a successful build from sorted lines with tokens of at most
\* 65535 bytes, two terms, one of them in two documents and doc_id 0 indexed.
C2_Witness ==
    /\ b_pc = "done"
    /\ in_sorted
    /\ TokensFitU16
    /\ Len(lexicon_file.entries) = 2
    /\ \E i \in 1..2 : LexPostings(i) = <<0, 1>>

\* The terms of lexicon.bin are strictly ascending byte-wise.
LexiconAscending ==
        \A i \in 1..Len(lexicon_file.entries) : \A j \in 1..Len(lexicon_file.entries) :
            i < j => strcmp(lexicon_file.entries[i].term_bytes,
                            lexicon_file.entries[j].term_bytes) < 0

\* C3 as stated: the terms of lexicon.bin are pairwise distinct and strictly
\* ascending byte-wise, for every input the builder accepts.
C3_LexiconAscending ==
    lexicon_file.exists => LexiconAscending

\* C3, amended: the same for every accepted input whose tokens are at most
\* 65535 bytes long.
C3_LexiconAscendingFitU16 ==
    (lexicon_file.exists /\ TokensFitU16) => LexiconAscending

\* C3 witness: lexicon.bin is written with two terms of at most 65535 bytes
\* whose order in the file is the reverse of their slots' order in the table.
C3_Witness ==
    /\ lexicon_file.exists
    /\ TokensFitU16
    /\ Len(lexicon_file.entries) = 2
    /\ sorted_terms[1] > sorted_terms[2]

\* C4: in the files of a successful build every lexicon entry has
\* postings_count > 0, the offset of the i-th entry is 4 times the sum of the
\* counts before it, every region lies inside the payload, and total_postings
\* is the sum of all counts.
C4_OffsetsBackToBack ==
    b_pc = "done" =>
        /\ \A i \in 1..Len(lexicon_file.entries) :
              /\ lexicon_file.entries[i].postings_count > 0
              /\ lexicon_file.entries[i].postings_offset_bytes = 4 * SumOver(LexCounts, i - 1)
              /\ lexicon_file.entries[i].postings_offset_bytes
                    + 4 * lexicon_file.entries[i].postings_count
                    <= 4 * Len(postings_file.posting_ids)
        /\ postings_file.total_postings = SumOver(LexCounts, Len(LexCounts))
        /\ lexicon_file.term_count = Len(lexicon_file.entries)

\* C4 witness: a successful build with two terms, the first with two
\* postings, so the second region starts at byte 8.
C4_Witness ==
    /\ b_pc = "done"
    /\ Len(lexicon_file.entries) = 2
    /\ lexicon_file.entries[1].postings_count = 2
    /\ lexicon_file.entries[2].postings_offset_bytes = 8
    /\ postings_file.total_postings = 3

\* The raw_text.tsv records read that have at least four tabs and a non-zero
\* doc_id, as positions in raw_log.
MetaLines == {k \in 1..Len(raw_log) : Len(raw_log[k]) >= 5 /\ parse_u32(raw_log[k][1]) # 0}

\* The first of those records with doc_id id.
FirstMetaLine(id) ==
    raw_log[CHOOSE k \in MetaLines :
                /\ parse_u32(raw_log[k][1]) = id
                /\ \A j \in MetaLines : parse_u32(raw_log[j][1]) = id => k <= j]

\* No title or url of those records is longer than 65535 bytes.
MetaFitsU16 ==
    \A k \in MetaLines : StrLen(raw_log[k][3]) <= MaxU16 /\ StrLen(raw_log[k][4]) <= MaxU16

\* forward.bin has one record for each doc_id of MetaLines, in strictly
\* ascending order, each with the title and url of the first record of that
\* doc_id; doc_count is the number of records and max_doc_id the largest doc_id.
ForwardIsFirstWins ==
        LET recs == forward_file.records
        IN /\ {recs[k].doc_id : k \in 1..Len(recs)}
                 = {parse_u32(raw_log[k][1]) : k \in MetaLines}
           /\ StrictlyAscending([k \in 1..Len(recs) |-> recs[k].doc_id])
           /\ \A k \in 1..Len(recs) :
                 /\ recs[k].title_bytes = FirstMetaLine(recs[k].doc_id)[4]
                 /\ recs[k].url_bytes = FirstMetaLine(recs[k].doc_id)[3]
           /\ forward_file.doc_count = Len(recs)
           /\ \A k \in 1..Len(recs) : recs[k].doc_id <= forward_file.max_doc_id
           /\ (recs # <<>> => \E k \in 1..Len(recs) : recs[k].doc_id = forward_file.max_doc_id)

\* C6 as stated: forward.bin of a successful build has one record for each
\* distinct non-zero doc_id among the raw_text.tsv records with at least four
\* tabs, in strictly ascending doc_id order, each with the title and url of
\* the first such record; doc_count is the number of records and max_doc_id
\* the largest doc_id written.
C6_ForwardIsFirstWins ==
    b_pc = "done" => ForwardIsFirstWins

\* The statement of C6 restricted to builds whose titles and urls of those
\* records are at most 65535 bytes long: outside the 16-bit truncation of
\* index_builder.cpp:495-496 it holds.
C6_ForwardIsFirstWinsFitU16 ==
    (b_pc = "done" /\ MetaFitsU16) => ForwardIsFirstWins

\* A case of the restricted statement: a successful build read two records of one doc_id with
\* different titles of at most 65535 bytes, and forward.bin has the first.
C6_Witness ==
    /\ b_pc = "done"
    /\ MetaFitsU16
    /\ Len(raw_log) = 2
    /\ MetaLines = {1, 2}
    /\ parse_u32(raw_log[1][1]) = parse_u32(raw_log[2][1])
    /\ raw_log[1][4] # raw_log[2][4]
    /\ Len(forward_file.records) = 1
    /\ forward_file.records[1].title_bytes = raw_log[1][4]

-----------------------------------------------------------------------------
(* Specification SpecBuilder: one run of index_builder.  stemmed.txt and    *)
(* raw_text.tsv are read front to back, so the model draws each line as it  *)
(* is read.                                                                 *)

\* The smallest table main() accepts (index_builder.cpp:195-197).
MinHashCapacity == 1024

\* doc_id fields: "0", "1", "2".
DocIdTexts == {MkStr(0, <<48>>), MkStr(0, <<49>>), MkStr(0, <<50>>)}

\* Tokens of stemmed.txt: "bb", "c" (djb2 puts "c" in the lower slot), and two
\* tokens of 65536 bytes that share their first 65535 bytes.
ShortTerms == {MkStr(0, <<98, 98>>), MkStr(0, <<99>>)}
LongTerms == {MkStr(65535, <<98>>), MkStr(65535, <<99>>)}
BuilderTerms == ShortTerms \cup LongTerms

\* (title, url) pairs of raw_text.tsv: short ones, a title of 65536 bytes and
\* a url of 65537 bytes.
RawMetas ==
    {<<MkStr(0, <<116>>), MkStr(0, <<104>>)>>,
     <<MkStr(0, <<117>>), MkStr(0, <<104>>)>>,
     <<MkStr(65536, <<>>), MkStr(0, <<104>>)>>,
     <<MkStr(0, <<116>>), MkStr(65537, <<>>)>>}

\* Records of raw_text.tsv as their tab-separated fields
\* (doc_id, source, url, title, text), and one with three tabs only.
RawLines ==
    {<<id, MkStr(0, <<119>>), m[2], m[1], MkStr(0, <<120>>)>> :
        id \in DocIdTexts, m \in RawMetas}
    \cup {<<MkStr(0, <<49>>), MkStr(0, <<119>>), MkStr(0, <<104>>), MkStr(0, <<116>>)>>}

\* index_builder.cpp:194-221: the state when the scan of stemmed.txt starts;
\* the hash_capacity argument is absent from no run of the model and at most
\* MinHashCapacity.
InitBuilder ==
    /\ StemIdle
    /\ PipelineIdle
    /\ SearchIdle
    /\ b_pc = "scan"
    /\ \E arg \in {0, MinHashCapacity} :
          term_hash_capacity = IF arg < MinHashCapacity THEN MinHashCapacity ELSE arg
    /\ term_table = NoTable
    /\ unique_terms = 0
    /\ tokens_seen = 0
    /\ doc_id = -1
    /\ sorted_terms = <<>>
    /\ postings_file = NoFile
    /\ lexicon_file = NoFile
    /\ metas = NoTable
    /\ metas_cap = 0
    /\ docs_with_meta = 0
    /\ max_doc_id = 0
    /\ forward_file = NoFile
    /\ in_tokens = {}
    /\ in_sorted = TRUE
    /\ in_count = 0
    /\ raw_log = <<>>

\* index_builder.cpp:224-234: a line with a tab is read, its doc_id parsed
ReadStemmedLine(id_text) ==
    /\ b_pc = "scan"
    /\ in_count < MaxInputItems
    /\ doc_id' = parse_u32(id_text)
    /\ in_sorted' = (in_sorted /\ doc_id <= parse_u32(id_text))
    /\ in_count' = in_count + 1
    /\ b_pc' = "tokens"
    /\ UNCHANGED <<term_hash_capacity, term_table, unique_terms, tokens_seen, sorted_terms,
                   postings_file, lexicon_file, metas, metas_cap, docs_with_meta,
                   max_doc_id, forward_file, in_tokens, raw_log>>
    /\ UNCHANGED <<stemVars, pipeVars, searchVars>>

\* index_builder.cpp:228-231: a line without a tab is skipped
SkipStemmedLine ==
    /\ b_pc = "scan"
    /\ in_count < MaxInputItems
    /\ in_count' = in_count + 1
    /\ UNCHANGED <<b_pc, term_hash_capacity, term_table, unique_terms, tokens_seen, doc_id,
                   sorted_terms, postings_file, lexicon_file, metas, metas_cap,
                   docs_with_meta, max_doc_id, forward_file, in_tokens, in_sorted, raw_log>>
    /\ UNCHANGED <<stemVars, pipeVars, searchVars>>

\* index_builder.cpp:244-265: the next token of the line goes to add_term_doc;
\* a refusal ends the run with status 1
ScanToken(term) ==
    /\ b_pc = "tokens"
    /\ in_count < MaxInputItems
    /\ in_count' = in_count + 1
    /\ in_tokens' = in_tokens \cup {<<term, doc_id>>}
    /\ LET r == add_term_doc(term_table, term_hash_capacity, term, doc_id, unique_terms)
       IN IF r.ok
          THEN /\ term_table' = r.table
               /\ unique_terms' = r.used_terms
               /\ tokens_seen' = tokens_seen + 1
               /\ b_pc' = "tokens"
          ELSE /\ b_pc' = "failed"
               /\ UNCHANGED <<term_table, unique_terms, tokens_seen>>
    /\ UNCHANGED <<term_hash_capacity, doc_id, sorted_terms, postings_file, lexicon_file,
                   metas, metas_cap, docs_with_meta, max_doc_id, forward_file, in_sorted,
                   raw_log>>
    /\ UNCHANGED <<stemVars, pipeVars, searchVars>>

\* index_builder.cpp:237-243, 266-271: the line has no further token
EndStemmedLine ==
    /\ b_pc = "tokens"
    /\ b_pc' = "scan"
    /\ UNCHANGED <<term_hash_capacity, term_table, unique_terms, tokens_seen, doc_id,
                   sorted_terms, postings_file, lexicon_file, metas, metas_cap,
                   docs_with_meta, max_doc_id, forward_file, in_tokens, in_sorted, in_count,
                   raw_log>>
    /\ UNCHANGED <<stemVars, pipeVars, searchVars>>

\* index_builder.cpp:225-227, 273-295: end of stemmed.txt; the used slots are
\* collected and sorted
SortTerms ==
    /\ b_pc = "scan"
    /\ sorted_terms' \in qsort_results(term_table)
    /\ b_pc' = "postings"
    /\ UNCHANGED <<term_hash_capacity, term_table, unique_terms, tokens_seen, doc_id,
                   postings_file, lexicon_file, metas, metas_cap, docs_with_meta,
                   max_doc_id, forward_file, in_tokens, in_sorted, in_count, raw_log>>
    /\ UNCHANGED <<stemVars, pipeVars, searchVars>>

\* index_builder.cpp:304-338
WritePostings ==
    /\ b_pc = "postings"
    /\ LET r == write_postings(term_table, sorted_terms)
       IN /\ term_table' = r.table
          /\ postings_file' = r.file
    /\ b_pc' = "lexicon"
    /\ UNCHANGED <<term_hash_capacity, unique_terms, tokens_seen, doc_id, sorted_terms,
                   lexicon_file, metas, metas_cap, docs_with_meta, max_doc_id,
                   forward_file, in_tokens, in_sorted, in_count, raw_log>>
    /\ UNCHANGED <<stemVars, pipeVars, searchVars>>

\* index_builder.cpp:340-369
WriteLexicon ==
    /\ b_pc = "lexicon"
    /\ lexicon_file' = write_lexicon(term_table, sorted_terms, unique_terms)
    /\ b_pc' = "raw"
    /\ UNCHANGED <<term_hash_capacity, term_table, unique_terms, tokens_seen, doc_id,
                   sorted_terms, postings_file, metas, metas_cap, docs_with_meta,
                   max_doc_id, forward_file, in_tokens, in_sorted, in_count>>
    /\ UNCHANGED <<raw_log>>
    /\ UNCHANGED <<stemVars, pipeVars, searchVars>>

\* index_builder.cpp:391-461: one record of raw_text.tsv
ReadRawLine(fields) ==
    /\ b_pc = "raw"
    /\ Len(raw_log) < MaxRawLines
    /\ in_count < MaxInputItems
    /\ in_count' = in_count + 1
    /\ raw_log' = Append(raw_log, fields)
    /\ LET m == read_raw_record([ok |-> TRUE, metas |-> metas, metas_cap |-> metas_cap,
                                  docs_with_meta |-> docs_with_meta,
                                  max_doc_id |-> max_doc_id], fields)
       IN /\ b_pc' = IF m.ok THEN "raw" ELSE "failed"
          /\ metas' = m.metas
          /\ metas_cap' = m.metas_cap
          /\ docs_with_meta' = m.docs_with_meta
          /\ max_doc_id' = m.max_doc_id
    /\ UNCHANGED <<term_hash_capacity, term_table, unique_terms, tokens_seen, doc_id,
                   sorted_terms, postings_file, lexicon_file, forward_file, in_tokens,
                   in_sorted>>
    /\ UNCHANGED <<stemVars, pipeVars, searchVars>>

\* index_builder.cpp:392-395, 462-530: end of raw_text.tsv; forward.bin is
\* written and the run ends with status 0
WriteForward ==
    /\ b_pc = "raw"
    /\ forward_file' = write_forward(metas, metas_cap, docs_with_meta, max_doc_id)
    /\ b_pc' = "done"
    /\ UNCHANGED <<term_hash_capacity, term_table, unique_terms, tokens_seen, doc_id,
                   sorted_terms, postings_file, lexicon_file, metas, metas_cap,
                   docs_with_meta, max_doc_id, in_tokens, in_sorted, in_count, raw_log>>
    /\ UNCHANGED <<stemVars, pipeVars, searchVars>>

NextBuilder ==
    \/ \E id_text \in DocIdTexts : ReadStemmedLine(id_text)
    \/ SkipStemmedLine
    \/ \E term \in BuilderTerms : ScanToken(term)
    \/ EndStemmedLine
    \/ SortTerms
    \/ WritePostings
    \/ WriteLexicon
    \/ \E fields \in RawLines : ReadRawLine(fields)
    \/ WriteForward

SpecBuilder == InitBuilder /\ [][NextBuilder]_vars

-----------------------------------------------------------------------------
(* Specification SpecPipeline: tokenizer, stemmer and index_builder run one  *)
(* after the other on a raw_text.tsv, then search_cli answers one --query.   *)
(* Each program is one action.                                               *)

\* Records of raw_text.tsv: documents 0, 1 and 2 with a text, and a record
\* with three tabs only.
PipelineRawLines ==
    {<<MkStr(0, <<48>>), MkStr(0, <<119>>), MkStr(0, <<104>>), MkStr(0, <<116>>), MkStr(0, <<98>>)>>,
     <<MkStr(0, <<49>>), MkStr(0, <<119>>), MkStr(0, <<104>>), MkStr(0, <<116>>), MkStr(0, <<98>>)>>,
     <<MkStr(0, <<50>>), MkStr(0, <<119>>), MkStr(0, <<104>>), MkStr(0, <<116>>),
       MkStr(0, <<66, 32, 99>>)>>,
     <<MkStr(0, <<49>>), MkStr(0, <<119>>), MkStr(0, <<104>>), MkStr(0, <<116>>)>>}

\* The pieces queries are made of: "b" "c" "!" "&&" "||" "(" ")".
QueryLexemes == {<<98>>, <<99>>, <<33>>, <<38, 38>>, <<124, 124>>, <<40>>, <<41>>}

RECURSIVE Concat(_)
Concat(seqs) == IF seqs = <<>> THEN <<>> ELSE Head(seqs) \o Concat(Tail(seqs))

\* Queries of at most MaxQueryLexemes pieces, and each of them as "!(q)".
BaseQueries == {Concat(ls) : ls \in SeqsUpTo(QueryLexemes, MaxQueryLexemes)}
Negated(q) == <<33, 40>> \o q \o <<41>>
Queries == BaseQueries \cup {Negated(q) : q \in BaseQueries}

\* The three-document example corpus as a raw_text.tsv.
CorpusFile ==
    [exists |-> TRUE,
     lines |-> <<
     \* 1 wiki http://u/1 Alpha "The quick brown foxes are running quickly"
     <<MkStr(0, <<49>>), MkStr(0, <<119, 105, 107, 105>>), MkStr(0, <<104, 116, 116, 112, 58, 47, 47, 117, 47, 49>>),
       MkStr(0, <<65, 108, 112, 104, 97>>),
       MkStr(0, <<84, 104, 101, 32, 113, 117, 105, 99, 107, 32, 98, 114, 111, 119, 110, 32, 102, 111, 120, 101, 115, 32, 97, 114, 101, 32, 114, 117, 110, 110, 105, 110, 103, 32, 113, 117, 105, 99, 107, 108, 121>>)>>,
     \* 2 wiki http://u/2 Bravo "A quick red fox is faster than slower foxes"
     <<MkStr(0, <<50>>), MkStr(0, <<119, 105, 107, 105>>), MkStr(0, <<104, 116, 116, 112, 58, 47, 47, 117, 47, 50>>),
       MkStr(0, <<66, 114, 97, 118, 111>>),
       MkStr(0, <<65, 32, 113, 117, 105, 99, 107, 32, 114, 101, 100, 32, 102, 111, 120, 32, 105, 115, 32, 102, 97, 115, 116, 101, 114, 32, 116, 104, 97, 110, 32, 115, 108, 111, 119, 101, 114, 32, 102, 111, 120, 101, 115>>)>>,
     \* 3 wiki http://u/3 Charlie "Lazy dogs sleep while foxes run"
     <<MkStr(0, <<51>>), MkStr(0, <<119, 105, 107, 105>>), MkStr(0, <<104, 116, 116, 112, 58, 47, 47, 117, 47, 51>>),
       MkStr(0, <<67, 104, 97, 114, 108, 105, 101>>),
       MkStr(0, <<76, 97, 122, 121, 32, 100, 111, 103, 115, 32, 115, 108, 101, 101, 112, 32, 119, 104, 105, 108, 101, 32, 102, 111, 120, 101, 115, 32, 114, 117, 110>>)>> >>]

\* The example queries with the doc_ids expected for each.
CorpusExpected ==
    << \* fox
       [query |-> <<102, 111, 120>>,
       ids |-> <<1, 2, 3>>],
      \* fox && brown
      [query |-> <<102, 111, 120, 32, 38, 38, 32, 98, 114, 111, 119, 110>>,
       ids |-> <<1>>],
      \* fox && !brown
      [query |-> <<102, 111, 120, 32, 38, 38, 32, 33, 98, 114, 111, 119, 110>>,
       ids |-> <<2, 3>>],
      \* (brown || lazy) && fox
      [query |-> <<40, 98, 114, 111, 119, 110, 32, 124, 124, 32, 108, 97, 122, 121, 41, 32, 38, 38, 32, 102, 111, 120>>,
       ids |-> <<1, 3>>],
      \* quick fox
      [query |-> <<113, 117, 105, 99, 107, 32, 102, 111, 120>>,
       ids |-> <<1, 2>>],
      \* nonexistentterm
      [query |-> <<110, 111, 110, 101, 120, 105, 115, 116, 101, 110, 116, 116, 101, 114, 109>>,
       ids |-> <<>>],
      \* fox || !fox
      [query |-> <<102, 111, 120, 32, 124, 124, 32, 33, 102, 111, 120>>,
       ids |-> <<1, 2, 3>>] >>
CorpusQueries == {CorpusExpected[i].query : i \in 1..Len(CorpusExpected)}

InitPipeline ==
    /\ StemIdle
    /\ BuilderIdle
    /\ SearchIdle
    /\ raw_file \in {[exists |-> TRUE, lines |-> ls] : ls \in SeqsUpTo(PipelineRawLines, MaxRawLines)}
                       \cup {CorpusFile}
    /\ tokenized_file = NoFile
    /\ stemmed_file = NoFile

\* tokenizer raw_text.tsv tokenized.txt
RunTokenizer ==
    /\ raw_file.exists
    /\ ~tokenized_file.exists
    /\ tokenized_file' = tokenizer_main(raw_file)
    /\ UNCHANGED <<raw_file, stemmed_file>>
    /\ UNCHANGED <<stemVars, builderVars, searchVars>>

\* stemmer tokenized.txt stemmed.txt
RunStemmer ==
    /\ tokenized_file.exists
    /\ ~stemmed_file.exists
    /\ stemmed_file' = stemmer_main(tokenized_file)
    /\ UNCHANGED <<raw_file, tokenized_file>>
    /\ UNCHANGED <<stemVars, builderVars, searchVars>>

\* index_builder stemmed.txt raw_text.tsv out_dir 1024: the whole of main
RunIndexBuilder ==
    /\ stemmed_file.exists
    /\ b_pc = "off"
    /\ term_hash_capacity' = MinHashCapacity
    /\ LET sc == scan_lines([ok |-> TRUE, table |-> NoTable, used_terms |-> 0,
                             tokens_seen |-> 0, in_tokens |-> {}],
                            MinHashCapacity, stemmed_file.lines, 1)
           ids == [k \in 1..Len(stemmed_file.lines) |-> parse_u32(stemmed_file.lines[k].doc_id)]
           m == read_raw_lines([ok |-> TRUE, metas |-> NoTable, metas_cap |-> 0,
                                docs_with_meta |-> 0, max_doc_id |-> 0], raw_file.lines, 1)
       IN /\ unique_terms' = sc.used_terms
          /\ tokens_seen' = sc.tokens_seen
          /\ in_tokens' = sc.in_tokens
          /\ in_sorted' = \A i \in 1..Len(ids) : \A j \in 1..Len(ids) : i < j => ids[i] <= ids[j]
          /\ in_count' = Len(ids) + sc.tokens_seen
          /\ doc_id' = IF ids = <<>> THEN -1 ELSE ids[Len(ids)]
          /\ IF ~sc.ok
             THEN /\ b_pc' = "failed"
                  /\ term_table' = sc.table
                  /\ UNCHANGED <<sorted_terms, postings_file, lexicon_file, metas, metas_cap,
                                 docs_with_meta, max_doc_id, forward_file, raw_log>>
             ELSE /\ sorted_terms' \in qsort_results(sc.table)
                  /\ term_table' = write_postings(sc.table, sorted_terms').table
                  /\ postings_file' = write_postings(sc.table, sorted_terms').file
                  /\ lexicon_file' = write_lexicon(term_table', sorted_terms', sc.used_terms)
                  /\ raw_log' = raw_file.lines
                  /\ metas' = m.metas
                  /\ metas_cap' = m.metas_cap
                  /\ docs_with_meta' = m.docs_with_meta
                  /\ max_doc_id' = m.max_doc_id
                  /\ IF m.ok
                     THEN /\ forward_file' = write_forward(m.metas, m.metas_cap,
                                                           m.docs_with_meta, m.max_doc_id)
                          /\ b_pc' = "done"
                     ELSE /\ UNCHANGED forward_file
                          /\ b_pc' = "failed"
    /\ UNCHANGED <<stemVars, pipeVars, searchVars>>

\* search_cli.cpp:838-883: search_cli starts on the index directory and loads
\* the three files
LoadIndex ==
    /\ s_pc = "off"
    /\ b_pc \in {"off", "done", "failed"}
    /\ LET r == load_index(postings_file, lexicon_file, forward_file)
       IN /\ idx_data' = r.idx
          /\ s_pc' = IF r.ok THEN "ready" ELSE "exit1"
    /\ UNCHANGED <<query_arg, answer, interactive, offset_arg, limit_arg,
                   stdin_lines, stdin_pos, stdout_lines, evaluated>>
    /\ UNCHANGED <<stemVars, builderVars, pipeVars>>

\* search_cli.cpp:885-888, 908-909: the --query is answered and main returns
RunQuery(q) ==
    /\ s_pc = "ready"
    /\ ~interactive
    /\ query_arg' = q
    /\ answer' = run_single_query(idx_data, q, offset_arg, limit_arg)
    /\ stdout_lines' = stdout_lines \o answer'.out
    /\ evaluated' = Append(evaluated, q)
    /\ s_pc' = IF answer'.ok THEN "exit0" ELSE "exit1"
    /\ UNCHANGED <<idx_data, interactive, offset_arg, limit_arg, stdin_lines, stdin_pos>>
    /\ UNCHANGED <<stemVars, builderVars, pipeVars>>

NextPipeline ==
    \/ RunTokenizer
    \/ RunStemmer
    \/ RunIndexBuilder
    \/ LoadIndex
    \/ \E q \in Queries \cup CorpusQueries : RunQuery(q)

SpecPipeline == InitPipeline /\ [][NextPipeline]_vars

-----------------------------------------------------------------------------
(* Properties of the pipeline (SpecPipeline) *)

\* The doc_ids of the records of forward.bin.
ForwardIds == {forward_file.records[k].doc_id : k \in 1..Len(forward_file.records)}

\* C5: in an index built by tokenizer, stemmer and index builder from a
\* raw_text.tsv, every doc_id of a posting list is the doc_id of a record of
\* forward.bin and is at most forward.bin's max_doc_id.
C5_PostingsInUniverse ==
    (b_pc = "done" /\ stemmed_file.exists) =>
        \A k \in 1..Len(postings_file.posting_ids) :
            /\ postings_file.posting_ids[k] \in ForwardIds
            /\ postings_file.posting_ids[k] <= forward_file.max_doc_id

\* C10: when q and "!(q)" both evaluate successfully on an index built by the
\* pipeline from records in non-decreasing doc_id order, their results are
\* disjoint and their union is the universe.
C10_NotIsComplement ==
    (s_pc = "exit0" /\ b_pc = "done" /\ in_sorted) =>
        \A q \in BaseQueries :
            (query_arg = Negated(q)
             /\ run_single_query(idx_data, q, offset_arg, limit_arg).ok) =>
                LET r == run_single_query(idx_data, q, offset_arg, limit_arg).result
                IN /\ SeqRange(r) \cap SeqRange(answer.result) = {}
                   /\ SeqRange(r) \cup SeqRange(answer.result) = SeqRange(idx_data.universe_ids)

\* The stemmed.txt the code makes of the corpus:
\*   1\tthe quick brown fox are runn quick
\*   2\ta quick red fox is faster than slower fox
\*   3\tlazy dog sleep while fox run
CorpusStemmed ==
    << [doc_id |-> MkStr(0, <<49>>),
        tokens |-> <<MkStr(0, <<116, 104, 101>>), MkStr(0, <<113, 117, 105, 99, 107>>), MkStr(0, <<98, 114, 111, 119, 110>>),
                     MkStr(0, <<102, 111, 120>>), MkStr(0, <<97, 114, 101>>), MkStr(0, <<114, 117, 110, 110>>),
                     MkStr(0, <<113, 117, 105, 99, 107>>)>>],
       [doc_id |-> MkStr(0, <<50>>),
        tokens |-> <<MkStr(0, <<97>>), MkStr(0, <<113, 117, 105, 99, 107>>), MkStr(0, <<114, 101, 100>>),
                     MkStr(0, <<102, 111, 120>>), MkStr(0, <<105, 115>>), MkStr(0, <<102, 97, 115, 116, 101, 114>>),
                     MkStr(0, <<116, 104, 97, 110>>), MkStr(0, <<115, 108, 111, 119, 101, 114>>), MkStr(0, <<102, 111, 120>>)>>],
       [doc_id |-> MkStr(0, <<51>>),
        tokens |-> <<MkStr(0, <<108, 97, 122, 121>>), MkStr(0, <<100, 111, 103>>), MkStr(0, <<115, 108, 101, 101, 112>>),
                     MkStr(0, <<119, 104, 105, 108, 101>>), MkStr(0, <<102, 111, 120>>), MkStr(0, <<114, 117, 110>>)>>] >>

\* The terms of stemmed.txt.
StemmedTerms ==
    UNION {SeqRange(stemmed_file.lines[k].tokens) : k \in 1..Len(stemmed_file.lines)}

\* quick, brown, fox, run, fast, slow, lazy, dog, sleep
CorpusTermsOfNote ==
    {MkStr(0, <<113, 117, 105, 99, 107>>),
     MkStr(0, <<98, 114, 111, 119, 110>>),
     MkStr(0, <<102, 111, 120>>),
     MkStr(0, <<114, 117, 110>>),
     MkStr(0, <<102, 97, 115, 116>>),
     MkStr(0, <<115, 108, 111, 119>>),
     MkStr(0, <<108, 97, 122, 121>>),
     MkStr(0, <<100, 111, 103>>),
     MkStr(0, <<115, 108, 101, 101, 112>>)}

\* C16 as stated: the terms of the tokenized and stemmed corpus include
\* quick, brown, fox, run, fast, slow, lazy, dog and sleep.
C16_CorpusTermsOfNote ==
    (raw_file = CorpusFile /\ stemmed_file.exists) => CorpusTermsOfNote \subseteq StemmedTerms

\* C16: tokenizing and stemming the corpus gives exactly the token lists of
\* CorpusStemmed: foxes, quickly and dogs have become fox, quick and dog,
\* running has become runn, and faster and slower are unchanged.
C16_CorpusStemmedExactly ==
    (raw_file = CorpusFile /\ stemmed_file.exists) => stemmed_file.lines = CorpusStemmed

\* C16 witness: stemmer has run on the tokenized corpus; the term fox is
\* there and the word foxes is not.
C16_Witness ==
    /\ raw_file = CorpusFile
    /\ stemmed_file.exists
    /\ Len(tokenized_file.lines) = 3
    /\ MkStr(0, <<102, 111, 120>>) \in StemmedTerms
    /\ MkStr(0, <<102, 111, 120, 101, 115>>) \notin StemmedTerms

\* C15: on the index the pipeline builds from the corpus, each example query
\* succeeds and returns exactly the doc_ids expected for it.
C15_CorpusResults ==
    (raw_file = CorpusFile /\ s_pc \in {"exit0", "exit1"}) =>
        \A i \in 1..Len(CorpusExpected) :
            query_arg = CorpusExpected[i].query =>
                /\ s_pc = "exit0"
                /\ answer.result = CorpusExpected[i].ids
                /\ stdout_lines[1] = <<"TOTAL", Len(CorpusExpected[i].ids)>>

\* C15 witness: "(brown || lazy) && fox" has been answered with documents 1
\* and 3 on the index built from the corpus.
C15_Witness ==
    /\ raw_file = CorpusFile
    /\ b_pc = "done"
    /\ s_pc = "exit0"
    /\ query_arg = CorpusExpected[4].query
    /\ idx_data.term_count = 17
    /\ answer.result = <<1, 3>>

-----------------------------------------------------------------------------
(* Specification SpecEval: search_cli answers one --query on index files of  *)
(* any content that loads.                                                   *)

\* Posting lists of the terms "b" and "c" and doc_id sequences of forward.bin,
\* some of them not ascending.
EvalListsB == {<<1>>, <<1, 2>>, <<2, 1>>, <<1, 1>>}
EvalListsC == {<<>>, <<2>>}
EvalUniverses == {<<1, 2>>, <<1, 2, 3>>, <<2, 1>>}

\* Index files in the format index_builder writes (index_builder.cpp:319-369,
\* 486-503) for the lists pb of "b", pc of "c" and the documents of u.
EvalPostingsFile(pb, pc) ==
    [exists |-> TRUE, magic |-> "POST", version |-> 1,
     total_postings |-> Len(pb) + Len(pc), posting_ids |-> pb \o pc]
EvalLexiconFile(pb, pc) ==
    [exists |-> TRUE, magic |-> "LEXI", version |-> 1, term_count |-> 2,
     entries |-> << [term_len |-> 1, term_bytes |-> MkStr(0, <<98>>),
                     postings_offset_bytes |-> 0, postings_count |-> Len(pb)],
                    [term_len |-> 1, term_bytes |-> MkStr(0, <<99>>),
                     postings_offset_bytes |-> 4 * Len(pb), postings_count |-> Len(pc)] >>]
EvalForwardFile(u) ==
    [exists |-> TRUE, magic |-> "FWRD", version |-> 1, doc_count |-> Len(u),
     max_doc_id |-> CHOOSE x \in SeqRange(u) : \A y \in SeqRange(u) : y <= x,
     records |-> [k \in 1..Len(u) |->
                     [doc_id |-> u[k], title_len |-> 1, url_len |-> 1,
                      title_bytes |-> MkStr(0, <<116>>), url_bytes |-> MkStr(0, <<104>>)]]]

InitEval ==
    /\ StemIdle
    /\ BuilderNotStarted
    /\ PipelineIdle
    /\ SearchIdle
    /\ \E pb \in EvalListsB, pc \in EvalListsC :
          /\ postings_file = EvalPostingsFile(pb, pc)
          /\ lexicon_file = EvalLexiconFile(pb, pc)
    /\ \E u \in EvalUniverses : forward_file = EvalForwardFile(u)

\* The terms of the queries below: "b" and "c" are in the lexicon, "d" is not.
LawTerms == {<<98>>, <<99>>, <<100>>}

\* "!(x && y)" and "!x || !y"
DeMorganLeft(x, y) == <<33, 40>> \o x \o <<32, 38, 38, 32>> \o y \o <<41>>
DeMorganRight(x, y) == <<33>> \o x \o <<32, 124, 124, 32, 33>> \o y
\* "x y" and "x && y"
ImplicitAnd(x, y) == x \o <<32>> \o y
ExplicitAnd(x, y) == x \o <<32, 38, 38, 32>> \o y
\* "x || y && z" and "x || (y && z)"
OrAndBare(x, y, z) == x \o <<32, 124, 124, 32>> \o y \o <<32, 38, 38, 32>> \o z
OrAndGrouped(x, y, z) == x \o <<32, 124, 124, 32, 40>> \o y \o <<32, 38, 38, 32>> \o z \o <<41>>
\* "!!x"
NotNot(x) == <<33, 33>> \o x

LawQueries ==
    {DeMorganLeft(x, y) : x \in LawTerms, y \in LawTerms}
    \cup {DeMorganRight(x, y) : x \in LawTerms, y \in LawTerms}
    \cup {ImplicitAnd(x, y) : x \in LawTerms, y \in LawTerms}
    \cup {ExplicitAnd(x, y) : x \in LawTerms, y \in LawTerms}
    \cup {OrAndBare(t[1], t[2], t[3]) : t \in LawTerms \X LawTerms \X LawTerms}
    \cup {OrAndGrouped(t[1], t[2], t[3]) : t \in LawTerms \X LawTerms \X LawTerms}
    \cup {NotNot(x) : x \in LawTerms}

\* "d", "!d", "(d)" and "d || d": queries on a term that is in no lexicon.
AbsentQueries == {<<100>>, <<33, 100>>, <<40, 100, 41>>, <<100, 32, 124, 124, 32, 100>>}

\* "b &&", "!", "b || || c" and "()": queries whose operators lack operands.
StackQueries == {<<98, 32, 38, 38>>, <<33>>, <<98, 32, 124, 124, 32, 124, 124, 32, 99>>, <<40, 41>>}

\* "b-c", "b & c", "b | c", "b&c", "&&&b", "B1 c", "b|||c", "-" and "b.c!":
\* queries with bytes that belong to no token.
GapQueries == {<<98, 45, 99>>, <<98, 32, 38, 32, 99>>, <<98, 32, 124, 32, 99>>}
LexQueries ==
    GapQueries
    \cup {<<98, 38, 99>>, <<38, 38, 38, 98>>, <<66, 49, 32, 99>>, <<98, 124, 124, 124, 99>>,
          <<45>>, <<98, 46, 99, 33>>}

NextEval ==
    \/ LoadIndex
    \/ \E q \in BaseQueries \cup LawQueries \cup AbsentQueries \cup StackQueries \cup LexQueries :
          RunQuery(q)

SpecEval == InitEval /\ [][NextEval]_vars

\* The posting list of every lexicon entry and the universe of the loaded
\* index are strictly ascending.
IndexAscending ==
    /\ \A i \in 1..idx_data.term_count :
          StrictlyAscending(SubSeq(idx_data.postings_data,
                                   idx_data.lexicon[i].postings_offset \div 4 + 1,
                                   idx_data.lexicon[i].postings_offset \div 4
                                       + idx_data.lexicon[i].postings_count))
    /\ StrictlyAscending(idx_data.universe_ids)

\* C9: on an index whose posting lists and universe are strictly ascending,
\* every list pushed on the evaluator's operand stack, and so the result of
\* every query that evaluates, is strictly ascending and free of duplicates.
C9_PushedListsAscending ==
    (s_pc \in {"exit0", "exit1"} /\ IndexAscending) =>
        /\ \A k \in 1..Len(answer.pushed) : StrictlyAscending(answer.pushed[k])
        /\ (answer.ok => StrictlyAscending(answer.result))

\* C9 witness: on such an index a query has pushed the lists <<1, 2>> and
\* <<2>> of two terms and then their OR, in which document 2 appears once.
C9_Witness ==
    /\ s_pc = "exit0"
    /\ IndexAscending
    /\ \E k \in 1..Len(tokenize_query(query_arg)) : tokenize_query(query_arg)[k].type = TOK_OR
    /\ answer.pushed = << <<1, 2>>, <<2>>, <<1, 2>> >>
    /\ answer.result = <<1, 2>>

\* C11: on an index whose posting lists and universe are strictly ascending,
\* the query "!(x && y)" evaluates, and to the same list as "!x || !y", for
\* any two terms x and y, in the lexicon or not.
C11_DeMorgan ==
    (s_pc \in {"exit0", "exit1"} /\ IndexAscending) =>
        \A x \in LawTerms, y \in LawTerms :
            query_arg = DeMorganLeft(x, y) =>
                LET r == run_single_query(idx_data, DeMorganRight(x, y), offset_arg, limit_arg)
                IN /\ answer.ok
                   /\ r.ok
                   /\ answer.result = r.result

\* C11 witness: "!(b && c)" has been answered with <<1, 3>> where "b" is in
\* documents 1 and 2, "c" in document 2 and the universe is <<1, 2, 3>>.
C11_Witness ==
    /\ s_pc = "exit0"
    /\ IndexAscending
    /\ query_arg = DeMorganLeft(<<98>>, <<99>>)
    /\ answer.pushed[1] = <<1, 2>>
    /\ answer.pushed[2] = <<2>>
    /\ answer.result = <<1, 3>>

\* The places of a raw token sequence where an operand ends and the next
\* begins: the left token is TERM or RPAREN, the right one TERM, LPAREN or NOT.
OperandGaps(raw) ==
    {t \in 2..Len(raw) :
        /\ raw[t - 1].type \in {TOK_TERM, TOK_RPAREN}
        /\ raw[t].type \in {TOK_TERM, TOK_LPAREN, TOK_NOT}}

\* raw with one AND token put into each of its operand gaps and nowhere else.
WithAndInGaps(raw) ==
    LET gaps == OperandGaps(raw)
        at(t) == t + Cardinality({g \in gaps : g <= t})
    IN [k \in 1..(Len(raw) + Cardinality(gaps)) |->
           IF \E t \in 1..Len(raw) : at(t) = k
           THEN raw[CHOOSE t \in 1..Len(raw) : at(t) = k]
           ELSE OpToken(TOK_AND)]

\* C12: the tokens of an answered query are its raw tokens with an AND
\* inserted exactly between a TERM or RPAREN and a following TERM, LPAREN or
\* NOT; and the query "x y" gives the same result as "x && y".
C12_ImplicitAnd ==
    (s_pc \in {"exit0", "exit1"}) =>
        /\ tokenize_query(query_arg) = WithAndInGaps(lex_from(query_arg, 1, <<>>))
        /\ \A x \in LawTerms, y \in LawTerms :
              query_arg = ImplicitAnd(x, y) =>
                  LET r == run_single_query(idx_data, ExplicitAnd(x, y), offset_arg, limit_arg)
                  IN /\ answer.ok = r.ok
                     /\ answer.result = r.result
                     /\ answer.out = r.out

\* C12 witness: "b!c" has been answered; its tokens are TERM AND NOT TERM.
C12_Witness ==
    /\ s_pc = "exit0"
    /\ query_arg = <<98, 33, 99>>
    /\ Len(tokenize_query(query_arg)) = 4
    /\ tokenize_query(query_arg)[2].type = TOK_AND
    /\ tokenize_query(query_arg)[3].type = TOK_NOT
    /\ answer.result = <<1>>

\* A recursive-descent parser of the query grammar
\*     or  ::= and (OR and)*      and ::= not (AND not)*
\*     not ::= NOT not | atom     atom ::= TERM | LPAREN or RPAREN
\* giving the postfix form of what it has parsed from token i on: [ok, pos, post].
RECURSIVE ParseOr(_, _)
RECURSIVE ParseOrRest(_, _)
RECURSIVE ParseAnd(_, _)
RECURSIVE ParseAndRest(_, _)
RECURSIVE ParseNot(_, _)
RECURSIVE ParseAtom(_, _)
ParseFail == [ok |-> FALSE, pos |-> 0, post |-> <<>>]

ParseAtom(toks, i) ==
    IF i > Len(toks) THEN ParseFail
    ELSE IF toks[i].type = TOK_TERM THEN [ok |-> TRUE, pos |-> i + 1, post |-> <<toks[i]>>]
    ELSE IF toks[i].type = TOK_LPAREN
    THEN LET r == ParseOr(toks, i + 1)
         IN IF r.ok /\ r.pos <= Len(toks) /\ toks[r.pos].type = TOK_RPAREN
            THEN [ok |-> TRUE, pos |-> r.pos + 1, post |-> r.post]
            ELSE ParseFail
    ELSE ParseFail

ParseNot(toks, i) ==
    IF i <= Len(toks) /\ toks[i].type = TOK_NOT
    THEN LET r == ParseNot(toks, i + 1)
         IN IF r.ok THEN [ok |-> TRUE, pos |-> r.pos, post |-> Append(r.post, toks[i])]
            ELSE ParseFail
    ELSE ParseAtom(toks, i)

ParseAndRest(toks, left) ==
    IF left.ok /\ left.pos <= Len(toks) /\ toks[left.pos].type = TOK_AND
    THEN LET r == ParseNot(toks, left.pos + 1)
         IN IF r.ok
            THEN ParseAndRest(toks, [ok |-> TRUE, pos |-> r.pos,
                                     post |-> left.post \o r.post \o <<toks[left.pos]>>])
            ELSE ParseFail
    ELSE left

ParseAnd(toks, i) == ParseAndRest(toks, ParseNot(toks, i))

ParseOrRest(toks, left) ==
    IF left.ok /\ left.pos <= Len(toks) /\ toks[left.pos].type = TOK_OR
    THEN LET r == ParseAnd(toks, left.pos + 1)
         IN IF r.ok
            THEN ParseOrRest(toks, [ok |-> TRUE, pos |-> r.pos,
                                    post |-> left.post \o r.post \o <<toks[left.pos]>>])
            ELSE ParseFail
    ELSE left

ParseOr(toks, i) == ParseOrRest(toks, ParseAnd(toks, i))

\* The token stream is an expression of the grammar.
WellFormed(toks) == ParseOr(toks, 1).ok /\ ParseOr(toks, 1).pos = Len(toks) + 1

-----------------------------------------------------------------------------
(* Specification SpecCli: one run of search_cli on an index directory whose  *)
(* files may be damaged, either with --query, --offset and --limit or        *)
(* reading its queries from the standard input.                              *)

\* The files of a sound index: "b" is in documents 1, 2, 3, "c" in document 2.
CliPostingsFile == EvalPostingsFile(<<1, 2, 3>>, <<2>>)
CliLexiconFile == EvalLexiconFile(<<1, 2, 3>>, <<2>>)
CliForwardFile == EvalForwardFile(<<1, 2, 3>>)

\* What can be in the place of an index file: nothing, the file, the file
\* with another magic number or version, and the file cut off after
\* all_but_last of its data items.
DamagedFiles(file, data_field) ==
    {NoFile,
     [file EXCEPT !.magic = "JUNK"],
     [file EXCEPT !.version = 2],
     [file EXCEPT ![data_field] = SubSeq(file[data_field], 1, Len(file[data_field]) - 1)]}

\* Index directories: the sound one and those with exactly one damaged file.
CliIndexDirs ==
    {<<CliPostingsFile, CliLexiconFile, CliForwardFile>>}
    \cup {<<f, CliLexiconFile, CliForwardFile>> : f \in DamagedFiles(CliPostingsFile, "posting_ids")}
    \cup {<<CliPostingsFile, f, CliForwardFile>> : f \in DamagedFiles(CliLexiconFile, "entries")}
    \cup {<<CliPostingsFile, CliLexiconFile, f>> : f \in DamagedFiles(CliForwardFile, "records")}

\* Values of --offset and --limit: 0, 1, 2, 2^32 - 2 and 2^32 - 1.
CliU32 == {U32(0), U32(1), U32(2), [hi |-> 65535, lo |-> 65534], [hi |-> 65535, lo |-> 65535]}

\* Queries and input lines: "", " ", "b", "!d", "b)" and "b\r".
CliLines == {<<>>, <<32>>, <<98>>, <<33, 100>>, <<98, 41>>, <<98, 13>>}

InitCli ==
    /\ StemIdle
    /\ BuilderNotStarted
    /\ PipelineIdle
    /\ \E dir \in CliIndexDirs :
          /\ postings_file = dir[1]
          /\ lexicon_file = dir[2]
          /\ forward_file = dir[3]
    /\ s_pc = "off"
    /\ idx_data = EmptyIndex
    /\ query_arg = <<>>
    /\ answer = NoAnswer
    /\ stdin_pos = 0
    /\ stdout_lines = <<>>
    /\ evaluated = <<>>
    /\ \/ /\ interactive = FALSE
          /\ offset_arg \in CliU32
          /\ limit_arg \in CliU32
          /\ stdin_lines = <<>>
       \/ /\ interactive = TRUE
          /\ offset_arg = U32(DefaultOffset)
          /\ limit_arg = U32(DefaultLimit)
          /\ stdin_lines \in SeqsUpTo(CliLines, MaxStdinLines)

\* search_cli.cpp:891-895: the trailing '\n' and '\r' bytes are cut off
RECURSIVE chomp(_)
chomp(line) ==
    IF line # <<>> /\ line[Len(line)] \in {10, 13}
    THEN chomp(SubSeq(line, 1, Len(line) - 1))
    ELSE line

\* Faulty variant of ReadQueryLine: the loop goes on after a failed query.
ReadQueryLine_no_break ==
    /\ s_pc = "ready"
    /\ interactive
    /\ stdin_pos < Len(stdin_lines)
    /\ chomp(stdin_lines[stdin_pos + 1]) # <<>>
    /\ stdin_pos' = stdin_pos + 1
    /\ query_arg' = chomp(stdin_lines[stdin_pos + 1])
    /\ answer' = run_single_query(idx_data, query_arg', offset_arg, limit_arg)
    /\ evaluated' = Append(evaluated, query_arg')
    /\ stdout_lines' = stdout_lines \o << <<"QUERY", query_arg'>> >> \o answer'.out
                           \o (IF answer'.ok THEN << <<"">> >> ELSE <<>>)
    /\ s_pc' = "ready"
    /\ UNCHANGED <<idx_data, interactive, offset_arg, limit_arg, stdin_lines>>
    /\ UNCHANGED <<stemVars, builderVars, pipeVars>>

\* Faulty variant of ReadQueryLine: no empty line follows an answered query.
ReadQueryLine_no_blank ==
    /\ s_pc = "ready"
    /\ interactive
    /\ stdin_pos < Len(stdin_lines)
    /\ chomp(stdin_lines[stdin_pos + 1]) # <<>>
    /\ stdin_pos' = stdin_pos + 1
    /\ query_arg' = chomp(stdin_lines[stdin_pos + 1])
    /\ answer' = run_single_query(idx_data, query_arg', offset_arg, limit_arg)
    /\ evaluated' = Append(evaluated, query_arg')
    /\ stdout_lines' = stdout_lines \o << <<"QUERY", query_arg'>> >> \o answer'.out
    /\ s_pc' = IF answer'.ok THEN "ready" ELSE "exit1"
    /\ UNCHANGED <<idx_data, interactive, offset_arg, limit_arg, stdin_lines>>
    /\ UNCHANGED <<stemVars, builderVars, pipeVars>>

\* search_cli.cpp:890-904: fgets returns a line that is not empty once its
\* line end is cut off (a line is shorter than the 4096-byte buffer); it is
\* echoed and evaluated, a failure ends the loop with ok = 0, a success is
\* followed by an empty line
ReadQueryLine ==
    /\ s_pc = "ready"
    /\ interactive
    /\ stdin_pos < Len(stdin_lines)
    /\ chomp(stdin_lines[stdin_pos + 1]) # <<>>
    /\ stdin_pos' = stdin_pos + 1
    /\ query_arg' = chomp(stdin_lines[stdin_pos + 1])
    /\ answer' = run_single_query(idx_data, query_arg', offset_arg, limit_arg)
    /\ evaluated' = Append(evaluated, query_arg')
    /\ stdout_lines' = stdout_lines \o << <<"QUERY", query_arg'>> >> \o answer'.out
                           \o (IF answer'.ok THEN << <<"">> >> ELSE <<>>)
    /\ s_pc' = IF answer'.ok THEN "ready" ELSE "exit1"
    /\ UNCHANGED <<idx_data, interactive, offset_arg, limit_arg, stdin_lines>>
    /\ UNCHANGED <<stemVars, builderVars, pipeVars>>

\* search_cli.cpp:890-898: a line that is empty once its line end is cut off
\* is passed over
SkipEmptyLine ==
    /\ s_pc = "ready"
    /\ interactive
    /\ stdin_pos < Len(stdin_lines)
    /\ chomp(stdin_lines[stdin_pos + 1]) = <<>>
    /\ stdin_pos' = stdin_pos + 1
    /\ UNCHANGED <<s_pc, idx_data, query_arg, answer, interactive, offset_arg, limit_arg,
                   stdin_lines, stdout_lines, evaluated>>
    /\ UNCHANGED <<stemVars, builderVars, pipeVars>>

\* search_cli.cpp:890, 908-909: fgets finds the end of stdin; ok is still 1
EndOfInput ==
    /\ s_pc = "ready"
    /\ interactive
    /\ stdin_pos = Len(stdin_lines)
    /\ s_pc' = "exit0"
    /\ UNCHANGED <<idx_data, query_arg, answer, interactive, offset_arg, limit_arg,
                   stdin_lines, stdin_pos, stdout_lines, evaluated>>
    /\ UNCHANGED <<stemVars, builderVars, pipeVars>>

NextCli ==
    \/ LoadIndex
    \/ \E q \in CliLines : RunQuery(q)
    \/ ReadQueryLine
    \/ SkipEmptyLine
    \/ EndOfInput

SpecCli == InitCli /\ [][NextCli]_vars

-----------------------------------------------------------------------------
(* Properties of search_cli's output and exit status (SpecEval, SpecCli) *)

\* The term tokens of a query, and whether none of them is a lexicon entry.
QueryTerms(q) ==
    {tokenize_query(q)[k].text :
        k \in {j \in 1..Len(tokenize_query(q)) : tokenize_query(q)[j].type = TOK_TERM}}
AllTermsAbsent(q) ==
    /\ QueryTerms(q) # {}
    /\ \A t \in QueryTerms(q) : \A i \in 1..idx_data.term_count : idx_data.lexicon[i].term # t
HasNot(q) == \E k \in 1..Len(tokenize_query(q)) : tokenize_query(q)[k].type = TOK_NOT

\* C14: with --query, the output is the TOTAL line with the full count
\* followed by the DOC lines of the results at the positions offset up to
\* min(offset + limit, count) - 1, offset + limit being the sum of the two
\* numbers; there is no DOC line when offset >= count.
C14_WindowIsMathematical ==
    (~interactive /\ s_pc = "exit0") =>
        LET count == Len(answer.result)
            reaches == offset_arg.hi > 0 \/ limit_arg.hi > 0
                           \/ offset_arg.lo + limit_arg.lo >= count
            first == IF offset_arg.hi > 0 THEN count ELSE Min(offset_arg.lo, count)
            last == IF reaches THEN count ELSE offset_arg.lo + limit_arg.lo
        IN stdout_lines = << <<"TOTAL", count>> >>
                              \o [k \in 1..(last - first) |-> doc_line(idx_data, answer.result, first + k)]

\* C17 as stated: a query that evaluates and whose terms are all absent from
\* the lexicon prints TOTAL 0 and nothing else, whatever its operators.
C17_AbsentTermsTotal0 ==
    (s_pc = "exit0" /\ AllTermsAbsent(query_arg)) =>
        /\ answer.result = <<>>
        /\ stdout_lines = << <<"TOTAL", 0>> >>

\* C17: a query without NOT that evaluates and whose terms are all absent
\* from the lexicon prints TOTAL 0 and nothing else; every absent term has
\* put the empty list on the stack.
C17_AbsentTermsNoNotTotal0 ==
    (s_pc = "exit0" /\ AllTermsAbsent(query_arg) /\ ~HasNot(query_arg)) =>
        /\ answer.result = <<>>
        /\ \A k \in 1..Len(answer.pushed) : answer.pushed[k] = <<>>
        /\ stdout_lines = << <<"TOTAL", 0>> >>

\* C17 witness: "d || d" has been answered with TOTAL 0, "d" being absent.
C17_Witness ==
    /\ s_pc = "exit0"
    /\ query_arg = <<100, 32, 124, 124, 32, 100>>
    /\ AllTermsAbsent(query_arg)
    /\ Len(answer.pushed) = 3
    /\ stdout_lines = << <<"TOTAL", 0>> >>

\* A query of white space only, the empty one included.
AllSpace(q) == \A k \in 1..Len(q) : isspace(q[k])

IsTotal0(line) == Len(line) = 2 /\ line[1] = "TOTAL" /\ line[2] = 0

\* C18 as stated: an empty or all-whitespace query prints the line TOTAL 0
\* and is a success, as the --query and as a line of the standard input.
C18_BlankQueryTotal0 ==
    /\ (~interactive /\ evaluated # <<>> /\ AllSpace(query_arg)) =>
           /\ s_pc = "exit0"
           /\ stdout_lines = << <<"TOTAL", 0>> >>
    /\ (interactive /\ stdin_pos > 0 /\ AllSpace(chomp(stdin_lines[stdin_pos]))) =>
           /\ s_pc # "exit1"
           /\ Len(stdout_lines) >= 2
           /\ IsTotal0(stdout_lines[Len(stdout_lines) - 1])

\* C18: an empty or all-whitespace query handed to run_single_query prints
\* the line TOTAL 0 and is a success: as the --query it is the whole output
\* and the exit status is 0; a whitespace line of the standard input gives
\* the block QUERY, TOTAL 0, empty line and the loop goes on.  A line of the
\* standard input that is empty once its line end is removed is never
\* evaluated and prints nothing.
C18_BlankQueryEvaluatedTotal0 ==
    /\ (evaluated # <<>> /\ AllSpace(query_arg)) =>
           /\ answer.ok
           /\ answer.out = << <<"TOTAL", 0>> >>
           /\ s_pc # "exit1"
           /\ IF interactive
              THEN /\ Len(stdout_lines) >= 3
                   /\ SubSeq(stdout_lines, Len(stdout_lines) - 2, Len(stdout_lines))
                          = << <<"QUERY", query_arg>>, <<"TOTAL", 0>>, <<"">> >>
              ELSE /\ s_pc = "exit0"
                   /\ stdout_lines = << <<"TOTAL", 0>> >>
    /\ interactive =>
           /\ \A k \in 1..Len(evaluated) : evaluated[k] # <<>>
           /\ Cardinality({k \in 1..Len(stdout_lines) : stdout_lines[k][1] = "QUERY"})
                  = Len(evaluated)

\* C18 witness: the input lines "" and " " have been read; only the second
\* was evaluated, and it printed its block.
C18_Witness ==
    /\ interactive
    /\ s_pc = "exit0"
    /\ stdin_lines = <<<<>>, <<32>>>>
    /\ evaluated = <<<<32>>>>
    /\ stdout_lines = << <<"QUERY", <<32>>>>, <<"TOTAL", 0>>, <<"">> >>

\* The three index files are those of the sound index.
IndexSound ==
    <<postings_file, lexicon_file, forward_file>> = <<CliPostingsFile, CliLexiconFile, CliForwardFile>>

NonEmptyLine(line) == line # <<>>

\* The lines of stdin that are queries: those not empty without their line end.
StdinQueries == SelectSeq([k \in 1..Len(stdin_lines) |-> chomp(stdin_lines[k])], NonEmptyLine)

\* The positions in StdinQueries of the queries that fail.
FailingQueries ==
    {k \in 1..Len(StdinQueries) :
        ~run_single_query(idx_data, StdinQueries[k], offset_arg, limit_arg).ok}

IsQueryLine(line) == line[1] = "QUERY"

Unreadable(file, magic, announced, data_field) ==
    IF ~file.exists THEN TRUE
    ELSE \/ file.magic # magic
         \/ file.version # 1
         \/ Len(file[data_field]) < file[announced]

\* C20: if one of the three index files is unreadable, search_cli, once
\* started, has exited with status 1 without evaluating a query and without
\* printing anything on stdout.
C20_LoadFailureIsFatal ==
    (s_pc # "off"
     /\ (\/ Unreadable(postings_file, "POST", "total_postings", "posting_ids")
         \/ Unreadable(lexicon_file, "LEXI", "term_count", "entries")
         \/ Unreadable(forward_file, "FWRD", "doc_count", "records"))) =>
        /\ s_pc = "exit1"
        /\ evaluated = <<>>
        /\ answer = NoAnswer
        /\ stdout_lines = <<>>

\* C20 witness: an interactive search_cli with input lines has exited with
\* status 1 on a lexicon.bin of version 2.
C20_Witness ==
    /\ s_pc = "exit1"
    /\ interactive
    /\ stdin_lines # <<>>
    /\ lexicon_file.exists
    /\ lexicon_file.magic = "LEXI"
    /\ lexicon_file.version = 2
    /\ stdout_lines = <<>>

-----------------------------------------------------------------------------
(* Parse errors.                                                             *)

\* Opening minus closing parentheses among the first k tokens.
ParenDepth(toks, k) ==
    Cardinality({i \in 1..k : toks[i].type = TOK_LPAREN})
    - Cardinality({i \in 1..k : toks[i].type = TOK_RPAREN})

\* No closing parenthesis comes before its opening one and none is left open.
Balanced(toks) ==
    /\ \A k \in 1..Len(toks) : ParenDepth(toks, k) >= 0
    /\ ParenDepth(toks, Len(toks)) = 0

\* C21: to_rpn reports a parse error exactly for the token streams whose
\* parentheses are unbalanced; a query with such a stream prints no TOTAL and
\* no DOC line and fails with exit status 1.
C21_ParseErrorIffUnbalanced ==
    evaluated # <<>> =>
        LET toks == tokenize_query(query_arg)
        IN /\ to_rpn(toks).ok <=> Balanced(toks)
           /\ ~Balanced(toks) => /\ s_pc = "exit1"
                                 /\ ~answer.ok
                                 /\ stdout_lines = <<>>

\* C21 witness: the query "(b", whose parenthesis is never closed, has failed
\* without output.
C21_Witness ==
    /\ evaluated = << <<40, 98>> >>
    /\ ~Balanced(tokenize_query(query_arg))
    /\ s_pc = "exit1"
    /\ stdout_lines = <<>>

-----------------------------------------------------------------------------
(* Evaluation errors.                                                        *)

\* Operands on the stack after the first k tokens of an RPN sequence, when none
\* of them failed: a term adds one, AND and OR take two and add one, NOT takes
\* one and adds one.
StackDepth(rpn, k) ==
    Cardinality({i \in 1..k : rpn[i].type = TOK_TERM})
    - Cardinality({i \in 1..k : rpn[i].type = TOK_AND \/ rpn[i].type = TOK_OR})

\* Every operator finds its operands and one list is left at the end.
StackOk(rpn) ==
    /\ \A k \in 1..Len(rpn) :
          /\ rpn[k].type = TOK_NOT => StackDepth(rpn, k - 1) >= 1
          /\ (rpn[k].type = TOK_AND \/ rpn[k].type = TOK_OR) => StackDepth(rpn, k - 1) >= 2
    /\ StackDepth(rpn, Len(rpn)) = 1

\* C22: eval_rpn fails when a NOT meets an empty stack, an AND or OR meets
\* fewer than two operands, or the stack does not hold exactly one list at the
\* end, and succeeds otherwise; on success the result is the list left on the
\* stack, the last one pushed; a query that fails prints nothing on stdout and
\* exits with status 1.
C22_EvalErrorIffStackWrong ==
    evaluated # <<>> =>
        LET toks == tokenize_query(query_arg)
            p == to_rpn(toks)
        IN (toks # <<>> /\ p.ok) =>
              /\ answer.ok <=> StackOk(p.rpn)
              /\ eval_rpn(idx_data, p.rpn).ok <=> StackOk(p.rpn)
              /\ answer.ok => /\ answer.pushed # <<>>
                              /\ answer.result = answer.pushed[Len(answer.pushed)]
              /\ ~answer.ok => /\ s_pc = "exit1"
                               /\ stdout_lines = <<>>

\* C22 witness: "b || || c" has failed at its first OR, which found only the
\* list of b on the stack, and nothing was printed.
C22_Witness ==
    /\ query_arg = <<98, 32, 124, 124, 32, 124, 124, 32, 99>>
    /\ evaluated # <<>>
    /\ to_rpn(tokenize_query(query_arg)).ok
    /\ ~StackOk(to_rpn(tokenize_query(query_arg)).rpn)
    /\ Len(answer.pushed) = 1
    /\ s_pc = "exit1"
    /\ stdout_lines = <<>>

-----------------------------------------------------------------------------
(* Specification SpecTable: index_builder on a term table of a few slots.    *)
(* main allocates at least 1024 slots (index_builder.cpp:194-197);           *)
(* add_term_doc and the loops around it are the same for every capacity, and *)
(* with a capacity of at most MaxTableCapacity the tokens of a short         *)
(* stemmed.txt collide and fill the table.  The tokens are single bytes, so  *)
(* the 64-bit hash does not wrap and djb2's index is exact for every         *)
(* capacity.                                                                 *)

MaxTableCapacity == 2

\* Tokens "b", "c", "d", "e": "b" and "d" share their slot in a table of two,
\* and so do "c" and "e".
TableTerms == {MkStr(0, <<98>>), MkStr(0, <<99>>), MkStr(0, <<100>>), MkStr(0, <<101>>)}

\* doc_id fields "1" and "2", and one record of raw_text.tsv.
TableDocIdTexts == {MkStr(0, <<49>>), MkStr(0, <<50>>)}
TableRawLines ==
    {<<MkStr(0, <<49>>), MkStr(0, <<119>>), MkStr(0, <<104>>), MkStr(0, <<116>>),
       MkStr(0, <<120>>)>>}

InitTable ==
    /\ StemIdle
    /\ PipelineIdle
    /\ SearchIdle
    /\ b_pc = "scan"
    /\ term_hash_capacity \in 1..MaxTableCapacity
    /\ term_table = NoTable
    /\ unique_terms = 0
    /\ tokens_seen = 0
    /\ doc_id = -1
    /\ sorted_terms = <<>>
    /\ postings_file = NoFile
    /\ lexicon_file = NoFile
    /\ metas = NoTable
    /\ metas_cap = 0
    /\ docs_with_meta = 0
    /\ max_doc_id = 0
    /\ forward_file = NoFile
    /\ in_tokens = {}
    /\ in_sorted = TRUE
    /\ in_count = 0
    /\ raw_log = <<>>

NextTable ==
    \/ \E id_text \in TableDocIdTexts : ReadStemmedLine(id_text)
    \/ \E term \in TableTerms : ScanToken(term)
    \/ EndStemmedLine
    \/ SortTerms
    \/ WritePostings
    \/ WriteLexicon
    \/ \E fields \in TableRawLines : ReadRawLine(fields)
    \/ WriteForward

SpecTable == InitTable /\ [][NextTable]_vars

\* The distinct tokens handed to add_term_doc so far and the terms in the used
\* slots of the table.
TokensGiven == {p[1] : p \in in_tokens}
TermsStored == {term_table[i].term : i \in DOMAIN term_table}

\* C23: the build fails in add_term_doc only when the token is in no slot and
\* every slot of the table is used, and then no index file is written; while
\* the distinct tokens are no more than the capacity no insertion fails, every
\* token given is stored and add_term_doc finds it again in its slot.
C23_FailsOnlyWhenFull ==
    /\ b_pc = "failed" =>
          /\ Cardinality(DOMAIN term_table) = term_hash_capacity
          /\ TokensGiven \ TermsStored # {}
          /\ postings_file = NoFile
          /\ lexicon_file = NoFile
          /\ forward_file = NoFile
    /\ Cardinality(TokensGiven) <= term_hash_capacity =>
          /\ b_pc # "failed"
          /\ TermsStored = TokensGiven
          /\ \A t \in TokensGiven :
                LET r == add_term_doc(term_table, term_hash_capacity, t, 2, unique_terms)
                IN /\ r.ok
                   /\ r.used_terms = unique_terms
                   /\ DOMAIN r.table = DOMAIN term_table
                   /\ \A i \in DOMAIN term_table : r.table[i].term = term_table[i].term

\* C23 witness: a third distinct token was refused by a table whose two slots
\* are used, and no file exists.
C23_Witness ==
    /\ b_pc = "failed"
    /\ term_hash_capacity = 2
    /\ Cardinality(DOMAIN term_table) = 2
    /\ Cardinality(TokensGiven) = 3
    /\ postings_file = NoFile

\* The used slots hold pairwise different terms, unique_terms counts them, and
\* they are the distinct tokens inserted (all tokens given but a refused one).
TableConsistent ==
    /\ Cardinality(TermsStored) = Cardinality(DOMAIN term_table)
    /\ unique_terms = Cardinality(DOMAIN term_table)
    /\ TermsStored \subseteq TokensGiven
    /\ b_pc # "failed" => TermsStored = TokensGiven
    /\ b_pc \in {"postings", "lexicon", "raw", "done"} => Len(sorted_terms) = unique_terms

\* A used slot stays used and keeps its term.
SlotsKept ==
    \A i \in DOMAIN term_table :
        /\ i \in DOMAIN term_table'
        /\ term_table'[i].term = term_table[i].term

\* C30: after any sequence of add_term_doc calls no two used slots hold the
\* same term and unique_terms equals the number of used slots and the number
\* of distinct terms inserted; no used slot is ever emptied or given another
\* term.
C30_TableSlotsStable == [](TableConsistent) /\ [][SlotsKept]_vars

\* C30 witness: two colliding tokens are both stored, one of them away from
\* the slot djb2 gives it, and a token has come more than once.
C30_Witness ==
    /\ term_hash_capacity = 2
    /\ unique_terms = 2
    /\ tokens_seen > 2
    /\ \E i \in DOMAIN term_table : djb2(term_table[i].term, term_hash_capacity) # i

-----------------------------------------------------------------------------
(* Specification SpecTokenizer: tokenizer and stemmer on raw_text.tsv files  *)
(* whose records differ in the number of tabs and in the bytes of the text.  *)

\* Records of raw_text.tsv as their tab-separated fields; a tab inside the
\* fifth field stands for a record of more than five fields, whose text
\* column is everything after the fourth tab.
TokW == MkStr(0, <<119>>)
TokH == MkStr(0, <<104>>)
TokT == MkStr(0, <<116>>)
TokenizerRawLines ==
    {\* "1 w h t B-c"
     <<MkStr(0, <<49>>), TokW, TokH, TokT, MkStr(0, <<66, 45, 99>>)>>,
     \* "2 w h t - ": no letter or digit in the text
     <<MkStr(0, <<50>>), TokW, TokH, TokT, MkStr(0, <<45, 32>>)>>,
     \* " w h t b": empty doc_id
     <<EmptyStr, TokW, TokH, TokT, MkStr(0, <<98>>)>>,
     \* "1 w h t": three tabs
     <<MkStr(0, <<49>>), TokW, TokH, TokT>>,
     \* "3 w h t b<TAB>C9": five tabs
     <<MkStr(0, <<51>>), TokW, TokH, TokT, MkStr(0, <<98, 9, 67, 57>>)>>,
     \* the empty line
     <<EmptyStr>>,
     \* "4 w h t ": empty text
     <<MkStr(0, <<52>>), TokW, TokH, TokT, EmptyStr>>,
     \* "b": no tab
     <<MkStr(0, <<98>>)>>,
     \* "5 w h t aB1  c ."
     <<MkStr(0, <<53>>), TokW, TokH, TokT, MkStr(0, <<97, 66, 49, 32, 32, 99, 32, 46>>)>>}

InitTokenizer ==
    /\ StemIdle
    /\ BuilderIdle
    /\ SearchIdle
    /\ raw_file \in {[exists |-> TRUE, lines |-> ls] :
                        ls \in SeqsUpTo(TokenizerRawLines, MaxRawLines)}
    /\ tokenized_file = NoFile
    /\ stemmed_file = NoFile

NextTokenizer ==
    \/ RunTokenizer
    \/ RunStemmer

SpecTokenizer == InitTokenizer /\ [][NextTokenizer]_vars

\* The k-th smallest element of a set of numbers.
Nth(S, k) == CHOOSE x \in S : Cardinality({y \in S : y <= x}) = k

\* Byte i of the text exists and is a letter or a digit.
AlnumAt(text, i) == i \in 1..StrLen(text) /\ isalnum(StrAt(text, i))

\* The maximal runs of letters and digits of a text, lowercased, from left to
\* right.
RunStarts(text) == {i \in 1..StrLen(text) : AlnumAt(text, i) /\ ~AlnumAt(text, i - 1)}
RunEnd(text, i) ==
    CHOOSE j \in i..StrLen(text) : (\A k \in i..j : AlnumAt(text, k)) /\ ~AlnumAt(text, j + 1)
RunsOf(text) ==
    [k \in 1..Cardinality(RunStarts(text)) |->
        LET first == Nth(RunStarts(text), k)
        IN MkStr(0, [m \in 1..(RunEnd(text, first) - first + 1) |->
                        IF StrAt(text, first + m - 1) \in 65..90
                        THEN StrAt(text, first + m - 1) + 32
                        ELSE StrAt(text, first + m - 1)])]

\* A record with at least four tabs, a non-empty doc_id and a letter or digit
\* in its text.
HasTokens(fields) ==
    /\ Len(fields) >= 5
    /\ StrLen(fields[1]) > 0
    /\ \E i \in 1..StrLen(fields[5]) : AlnumAt(fields[5], i)

\* C24: tokenized.txt has one line, in input order, for each record of
\* raw_text.tsv with at least four tabs, a non-empty doc_id and a letter or
\* digit in the text, and no other line; the line holds the doc_id and the
\* maximal runs of letters and digits of the text, lowercased, in order.
C24_TokenizerLines ==
    tokenized_file.exists =>
        LET kept == SelectSeq(raw_file.lines, HasTokens)
        IN tokenized_file.lines =
              [k \in 1..Len(kept) |-> [doc_id |-> kept[k][1], tokens |-> RunsOf(kept[k][5])]]

\* C24 witness: of a record with three tabs and the record "5 w h t aB1  c ."
\* only the second has a line, with the tokens "ab1" and "c".
C24_Witness ==
    /\ tokenized_file.exists
    /\ Len(raw_file.lines) = 2
    /\ Len(raw_file.lines[1]) = 4
    /\ tokenized_file.lines =
          << [doc_id |-> MkStr(0, <<53>>),
              tokens |-> <<MkStr(0, <<97, 98, 49>>), MkStr(0, <<99>>)>>] >>

-----------------------------------------------------------------------------
(* AND and OR as set operations.                                             *)

\* The posting list the loaded index holds for the bytes x, read off the
\* lexicon entry of that term; empty when there is none.
PostingsOf(x) ==
    LET hits == {i \in 1..idx_data.term_count : idx_data.lexicon[i].term = MkStr(0, x)}
    IN IF hits = {} THEN <<>>
       ELSE LET e == idx_data.lexicon[CHOOSE i \in hits : TRUE]
            IN SubSeq(idx_data.postings_data, e.postings_offset \div 4 + 1,
                      e.postings_offset \div 4 + e.postings_count)

\* "x||y"
OrOf(x, y) == x \o <<124, 124>> \o y

\* The lists of the loaded index and those the last query pushed.
ListsAtHand ==
    {PostingsOf(x) : x \in LawTerms} \cup {idx_data.universe_ids}
    \cup {answer.pushed[k] : k \in 1..Len(answer.pushed)}

\* C25: on an index with strictly ascending lists, "x && y" returns the
\* intersection and "x||y" the union of the two posting lists, strictly
\* ascending and so with every doc_id once; "x && x" and "x||x" return the
\* list of x; op_and and op_or are intersection and union on every pair of
\* lists of the index and of the evaluation.
C25_AndOrAreSetOps ==
    (evaluated # <<>> /\ IndexAscending) =>
        /\ \A x \in LawTerms, y \in LawTerms :
              /\ query_arg = ExplicitAnd(x, y) =>
                    /\ answer.ok
                    /\ StrictlyAscending(answer.result)
                    /\ SeqRange(answer.result) = SeqRange(PostingsOf(x)) \cap SeqRange(PostingsOf(y))
                    /\ x = y => answer.result = PostingsOf(x)
              /\ query_arg = OrOf(x, y) =>
                    /\ answer.ok
                    /\ StrictlyAscending(answer.result)
                    /\ SeqRange(answer.result) = SeqRange(PostingsOf(x)) \cup SeqRange(PostingsOf(y))
                    /\ x = y => answer.result = PostingsOf(x)
        /\ \A a \in ListsAtHand, b \in ListsAtHand :
              /\ StrictlyAscending(op_and(a, b))
              /\ SeqRange(op_and(a, b)) = SeqRange(a) \cap SeqRange(b)
              /\ StrictlyAscending(op_or(a, b))
              /\ SeqRange(op_or(a, b)) = SeqRange(a) \cup SeqRange(b)

\* C25 witness: "b||b" on an index where b is in documents 1 and 2 has
\* returned 1 and 2, each once.
C25_Witness ==
    /\ s_pc = "exit0"
    /\ IndexAscending
    /\ query_arg = OrOf(<<98>>, <<98>>)
    /\ PostingsOf(<<98>>) = <<1, 2>>
    /\ answer.pushed = << <<1, 2>>, <<1, 2>>, <<1, 2>> >>
    /\ answer.result = <<1, 2>>

-----------------------------------------------------------------------------
(* The lexer's tokens.                                                       *)

\* Byte i of the query exists and is a letter or a digit.
QAlnumAt(q, i) == i \in 1..Len(q) /\ isalnum(q[i])

\* Number of bytes equal to ch that end right before position i.
RunBefore(q, i, ch) ==
    LET stops == {j \in 1..(i - 1) : q[j] # ch}
    IN IF stops = {} THEN i - 1 ELSE i - 1 - (CHOOSE j \in stops : \A k \in stops : k <= j)

\* Position i is the first byte of a doubled ch the scan pairs up: the bytes
\* of a run of ch are taken two by two from its start.
TwinAt(q, i, ch) ==
    /\ i + 1 <= Len(q)
    /\ q[i] = ch
    /\ q[i + 1] = ch
    /\ RunBefore(q, i, ch) % 2 = 0

\* The positions where a token starts, and the token that starts there.
TokenStarts(q) ==
    {i \in 1..Len(q) :
        \/ TwinAt(q, i, 38)
        \/ TwinAt(q, i, 124)
        \/ q[i] \in {33, 40, 41}
        \/ (QAlnumAt(q, i) /\ ~QAlnumAt(q, i - 1))}
TokenAt(q, i) ==
    IF q[i] = 38 THEN OpToken(TOK_AND)
    ELSE IF q[i] = 124 THEN OpToken(TOK_OR)
    ELSE IF q[i] = 33 THEN OpToken(TOK_NOT)
    ELSE IF q[i] = 40 THEN OpToken(TOK_LPAREN)
    ELSE IF q[i] = 41 THEN OpToken(TOK_RPAREN)
    ELSE LET last == CHOOSE j \in i..Len(q) :
                        (\A k \in i..j : QAlnumAt(q, k)) /\ ~QAlnumAt(q, j + 1)
         IN [type |-> TOK_TERM,
             text |-> stem_term_inplace(
                          MkStr(0, [m \in 1..(last - i + 1) |->
                                       IF q[i + m - 1] \in 65..90 THEN q[i + m - 1] + 32
                                       ELSE q[i + m - 1]]))]
TokensOf(q) == [k \in 1..Cardinality(TokenStarts(q)) |-> TokenAt(q, Nth(TokenStarts(q), k))]

\* C26: the lexer's tokens for a query are, in input order, one for each
\* "&&", "||", "!", "(" and ")" and one for each maximal run of letters and
\* digits, lowercased and stemmed; every other byte, a single "&" or "|"
\* among them, gives no token: "b-c", "b & c" and "b | c" are tokenized and
\* answered as "b c".
C26_LexerTokens ==
    evaluated # <<>> =>
        /\ lex_from(query_arg, 1, <<>>) = TokensOf(query_arg)
        /\ query_arg \in GapQueries =>
              /\ tokenize_query(query_arg) = tokenize_query(<<98, 32, 99>>)
              /\ Len(tokenize_query(query_arg)) = 3
              /\ answer = run_single_query(idx_data, <<98, 32, 99>>, offset_arg, limit_arg)

\* C26 witness: "b | c" has been answered with the documents that hold both b
\* and c, as "b c" is.
C26_Witness ==
    /\ s_pc = "exit0"
    /\ query_arg = <<98, 32, 124, 32, 99>>
    /\ PostingsOf(<<98>>) = <<1, 2>>
    /\ PostingsOf(<<99>>) = <<2>>
    /\ answer.result = <<2>>

-----------------------------------------------------------------------------
(* The length fields of forward.bin.                                         *)

\* C27: for every document written to forward.bin, title_len and url_len are
\* the byte lengths of the title and URL stored for the doc_id and the bytes
\* after them are that title and URL, whatever their length; search_cli reads
\* the same (doc_id, title, url) triples back.
C27_ForwardLengthsExact ==
    b_pc = "done" =>
        LET recs == forward_file.records
            back == load_forward(EmptyIndex, forward_file)
        IN /\ \A k \in 1..Len(recs) :
                 /\ recs[k].title_len = StrLen(metas[recs[k].doc_id].title)
                 /\ recs[k].url_len = StrLen(metas[recs[k].doc_id].url)
                 /\ recs[k].title_bytes = metas[recs[k].doc_id].title
                 /\ recs[k].url_bytes = metas[recs[k].doc_id].url
           /\ back.ok
           /\ DOMAIN back.idx.metas_by_id = DOMAIN metas
           /\ \A id \in DOMAIN metas :
                 /\ back.idx.metas_by_id[id].title = metas[id].title
                 /\ back.idx.metas_by_id[id].url = metas[id].url

-----------------------------------------------------------------------------
(* Specification SpecLexicon: search_cli on indexes whose lexicon is any     *)
(* ascending selection of four terms, the empty one included, asked for      *)
(* terms in, between, below and above the lexicon.                           *)

\* "b" < "bb" < "c" < "d" with the documents of each.
LexiconPool ==
    << [term |-> MkStr(0, <<98>>), ids |-> <<1>>],
       [term |-> MkStr(0, <<98, 98>>), ids |-> <<1, 2>>],
       [term |-> MkStr(0, <<99>>), ids |-> <<2>>],
       [term |-> MkStr(0, <<100>>), ids |-> <<3>>] >>

\* The pool entries picked by the set I of positions, in pool order.
PickedEntries(I) == [k \in 1..Cardinality(I) |-> LexiconPool[Nth(I, k)]]

\* Number of postings of the first n of the entries es.
RECURSIVE PostingsBefore(_, _)
PostingsBefore(es, n) == IF n = 0 THEN 0 ELSE PostingsBefore(es, n - 1) + Len(es[n].ids)

\* postings.bin and lexicon.bin as index_builder writes them for the entries
\* es (index_builder.cpp:319-369): the lists back to back, offsets in bytes.
PickedPostingsFile(es) ==
    [exists |-> TRUE, magic |-> "POST", version |-> 1,
     total_postings |-> PostingsBefore(es, Len(es)),
     posting_ids |-> Concat([k \in 1..Len(es) |-> es[k].ids])]
PickedLexiconFile(es) ==
    [exists |-> TRUE, magic |-> "LEXI", version |-> 1, term_count |-> Len(es),
     entries |-> [k \in 1..Len(es) |->
                     [term_len |-> StrLen(es[k].term), term_bytes |-> es[k].term,
                      postings_offset_bytes |-> 4 * PostingsBefore(es, k - 1),
                      postings_count |-> Len(es[k].ids)]]]

InitLexicon ==
    /\ StemIdle
    /\ BuilderNotStarted
    /\ PipelineIdle
    /\ SearchIdle
    /\ \E I \in SUBSET (1..Len(LexiconPool)) :
          /\ postings_file = PickedPostingsFile(PickedEntries(I))
          /\ lexicon_file = PickedLexiconFile(PickedEntries(I))
    /\ forward_file = EvalForwardFile(<<1, 2, 3>>)

\* Single-term queries "a", "b", "bb", "bc", "c", "cc", "d", "e".
LookupQueries == {<<97>>, <<98>>, <<98, 98>>, <<98, 99>>, <<99>>, <<99, 99>>, <<100>>, <<101>>}

NextLexicon ==
    \/ LoadIndex
    \/ \E q \in LookupQueries : RunQuery(q)

SpecLexicon == InitLexicon /\ [][NextLexicon]_vars

\* The terms of the loaded lexicon are strictly ascending in strcmp order.
LexiconAscendingLoaded ==
    \A i \in 1..(idx_data.term_count - 1) :
        strcmp(idx_data.lexicon[i].term, idx_data.lexicon[i + 1].term) < 0

\* C28: on a strictly ascending lexicon lexicon_find finds a term exactly when
\* some lexicon entry has it, and then returns that entry's offset and count,
\* as a scan of all entries would; in the empty lexicon nothing is found.  A
\* one-term query therefore returns the posting list of its term's entry.
C28_FindIsLinearScan ==
    (s_pc # "off" /\ LexiconAscendingLoaded) =>
        /\ \A q \in LookupQueries :
              LET hits == {i \in 1..idx_data.term_count : idx_data.lexicon[i].term = MkStr(0, q)}
                  r == lexicon_find(idx_data, MkStr(0, q))
              IN /\ r.found <=> hits # {}
                 /\ r.found => \E i \in hits :
                                  /\ r.offset = idx_data.lexicon[i].postings_offset
                                  /\ r.count = idx_data.lexicon[i].postings_count
        /\ evaluated # <<>> =>
              /\ answer.ok
              /\ answer.result = PostingsOf(query_arg)

\* C28 witness: in the lexicon "b", "bb", "d" the last term has been found
\* (document 3).
C28_Witness ==
    /\ s_pc = "exit0"
    /\ idx_data.term_count = 3
    /\ LexiconAscendingLoaded
    /\ query_arg = <<100>>
    /\ idx_data.lexicon[3].term = MkStr(0, <<100>>)
    /\ answer.result = <<3>>

-----------------------------------------------------------------------------
(* The output blocks of interactive mode.                                    *)

\* A line of stdout without the title and url of a DOC line.
LineKind(line) == IF line[1] = "DOC" THEN <<"DOC", line[2]>> ELSE line

\* The TOTAL and DOC lines of a result list shown from its start.
ResultLines(res) == << <<"TOTAL", Len(res)>> >> \o [k \in 1..Len(res) |-> <<"DOC", res[k]>>]

\* The block of the query q: its echo and, when it can be answered, its
\* TOTAL and DOC lines.
BlockOf(q) ==
    LET r == run_single_query(idx_data, q, offset_arg, limit_arg)
    IN << <<"QUERY", q>> >> \o (IF r.ok THEN ResultLines(r.result) ELSE <<>>)

\* The blocks of the first n queries of stdin, an empty line after each block
\* of an answered query.
RECURSIVE BlocksWithBlank(_)
BlocksWithBlank(n) ==
    IF n = 0 THEN <<>>
    ELSE BlocksWithBlank(n - 1) \o BlockOf(StdinQueries[n])
            \o (IF n \in FailingQueries THEN <<>> ELSE << <<"">> >>)

\* The index has loaded.
Loaded == load_index(postings_file, lexicon_file, forward_file).ok

\* C29 as stated: every query line of stdin has exactly one block on stdout,
\* in input order, that begins with the QUERY echo and goes on with the
\* query's TOTAL line and DOC lines; one empty line stands between
\* consecutive blocks.
C29_EveryLineHasBlock ==
    (interactive /\ Loaded /\ s_pc \in {"exit0", "exit1"}) =>
        LET echoes == {k \in 1..Len(stdout_lines) : stdout_lines[k][1] = "QUERY"}
        IN /\ Cardinality(echoes) = Len(StdinQueries)
           /\ \A n \in 1..Len(StdinQueries) :
                 LET k == Nth(echoes, n)
                 IN /\ stdout_lines[k] = <<"QUERY", StdinQueries[n]>>
                    /\ k + 1 <= Len(stdout_lines)
                    /\ stdout_lines[k + 1][1] = "TOTAL"
                    /\ n > 1 => /\ stdout_lines[k - 1] = <<"">>
                                /\ stdout_lines[k - 2] # <<"">>

\* C29, amended: the lines of stdin that are not empty without their line end
\* have, in input order and up to and including the first query that fails,
\* one block each and nothing else is printed; the block of an answered query
\* is its echo, its TOTAL line and its DOC lines followed by one empty line,
\* the block of the failing query is its echo alone.
C29_BlocksUpToFirstFailure ==
    (interactive /\ Loaded /\ s_pc \in {"exit0", "exit1"}) =>
        LET last == IF FailingQueries = {} THEN Len(StdinQueries)
                    ELSE CHOOSE k \in FailingQueries : \A j \in FailingQueries : k <= j
        IN [k \in 1..Len(stdout_lines) |-> LineKind(stdout_lines[k])] = BlocksWithBlank(last)

\* C29 witness: the input lines "b", "" and "!d" gave two blocks with one
\* empty line after each; the empty input line gave none.
C29_Witness ==
    /\ interactive
    /\ s_pc = "exit0"
    /\ stdin_lines = << <<98>>, <<>>, <<33, 100>> >>
    /\ Len(evaluated) = 2
    /\ Cardinality({k \in 1..Len(stdout_lines) : stdout_lines[k][1] = "QUERY"}) = 2
    /\ Cardinality({k \in 1..Len(stdout_lines) : stdout_lines[k] = <<"">>}) = 2
    /\ stdout_lines[Len(stdout_lines)] = <<"">>

=============================================================================
